---- MODULE Spec2Model ----
(***************************************************************************)
(* Model of the generated command dispatcher of uRustShell                 *)
(* (shell_macros/src/commandsgen/mod.rs and cmd_dispatcher/src/lib.rs):    *)
(* macro expansion of a descriptor mapping into the static tables, the     *)
(* quote-aware tokenizer, the per-type parsers and dispatch_with_buf.      *)
(*                                                                         *)
(* A Rust &str is a sequence of one-character strings.  An integer value   *)
(* is a record [neg, mag] whose magnitude is a little-endian sequence of   *)
(* bytes as wide as the Rust type, so that every width keeps its range.    *)
(*                                                                         *)
(* Further components, each with a specification of its own: the shortcut  *)
(* dispatcher (ushell_dispatcher/src/shortcutsgen/mod.rs), the command     *)
(* history (shell_core/src/history/mod.rs) and the Enter handling of the   *)
(* input parser (ushell_input/src/input/parser.rs).                        *)
(***************************************************************************)
EXTENDS Integers, Sequences, FiniteSets, TLC

VARIABLES
    variant,      \* which generator built the module
    macro_input,  \* the macro invocation: groups of descriptor and functions, hexstr_size
    PARAM_SPECS,  \* generated: the unique descriptors
    ENTRIES,      \* generated: the function table
    MAX,          \* generated: MAX_U8 .. MAX_HEXSTR, by type
    MAX_ARITY,    \* generated: MAX_ARITY
    MAX_HEXSTR_LEN, \* generated: MAX_HEXSTR_LEN (hexstr_size of the macro input)
    pc,           \* position of the running call
    entry,        \* public function that was called
    line,         \* the input line
    out,          \* the token buffer (Len(out) is out.len())
    i,            \* tokenize: byte position in line
    n,            \* tokenize: number of tokens stored
    ent,          \* dispatch_with_buf: position of the resolved entry in ENTRIES, 0 before
    ctx,          \* dispatch_with_buf: the CallCtx
    pos,          \* parser: position of the next statement (descriptor character)
    k,            \* parser: index into the argument tokens
    idx,          \* parser: per-type indices
    calls,        \* invocations of registered functions made by the running call
    result,       \* result of the call
    memo,         \* observer: a finished dispatch call that is remembered, <<>> before
    history,      \* History<HTC, HME>: data, entries, data_head, entry_head, entry_size, current_index
    buffer,       \* InputParser: the content of the input buffer
    op,           \* the last operation on the history or the input parser, with what it returned
    execd,        \* the lines passed to the exec callback by the running parse_input
    evicted,      \* observer: the watched entries evicted from the history so far
    autocomplete  \* Autocomplete: candidates, filtered, input, tab_index

vars == <<variant, macro_input, PARAM_SPECS, ENTRIES, MAX, MAX_ARITY, MAX_HEXSTR_LEN, pc, entry, line, out, i, n, ent, ctx, pos, k, idx, calls, result, memo, history, buffer, op, execd, evicted, autocomplete>>

\* the state of the interactive shell: history and input parser
shell == <<history, buffer, op, execd, evicted, autocomplete>>

(***************************************************************************)
(* Strings                                                                 *)
(***************************************************************************)
SP == " "
TAB == "\t"
QUOTE == "\""
LF == "\n"

Digits == <<"0", "1", "2", "3", "4", "5", "6", "7", "8", "9">>
Upper == <<"A", "B", "C", "D", "E", "F", "G", "H", "I", "J", "K", "L", "M",
           "N", "O", "P", "Q", "R", "S", "T", "U", "V", "W", "X", "Y", "Z">>
Lower == <<"a", "b", "c", "d", "e", "f", "g", "h", "i", "j", "k", "l", "m",
           "n", "o", "p", "q", "r", "s", "t", "u", "v", "w", "x", "y", "z">>

Range(s) == {s[j] : j \in 1..Len(s)}

IndexOf(s, c) == CHOOSE j \in 1..Len(s) : s[j] = c

\* Byte value of an ASCII character (the order str::cmp compares by).
Byte(c) ==
    CASE c \in Range(Digits) -> 47 + IndexOf(Digits, c)
      [] c \in Range(Upper) -> 64 + IndexOf(Upper, c)
      [] c \in Range(Lower) -> 96 + IndexOf(Lower, c)
      [] c = TAB -> 9
      [] c = SP -> 32
      [] c = QUOTE -> 34
      [] c = "+" -> 43
      [] c = "-" -> 45
      [] c = "." -> 46
      [] c = "?" -> 63
      [] c = "_" -> 95

\* a < b in the byte-wise lexicographic order of str::cmp
RECURSIVE StrLess(_, _)
StrLess(a, b) ==
    IF b = <<>> THEN FALSE
    ELSE IF a = <<>> THEN TRUE
    ELSE IF a[1] # b[1] THEN Byte(a[1]) < Byte(b[1])
    ELSE StrLess(Tail(a), Tail(b))

IsPrefix(p, s) == Len(p) <= Len(s) /\ SubSeq(s, 1, Len(p)) = p

\* &line[start..end] with 0-based byte offsets
Slice(s, start, end) == SubSeq(s, start + 1, end)

(***************************************************************************)
(* tokenize                                                                *)
(***************************************************************************)
is_space(b) == b = SP \/ b = TAB

\* while i < bytes.len() && is_space(bytes[i]) { i += 1; }
RECURSIVE SkipSpaces(_, _)
SkipSpaces(bytes, j) ==
    IF j < Len(bytes) /\ is_space(bytes[j + 1]) THEN SkipSpaces(bytes, j + 1) ELSE j

\* the scan of a quoted token with `&&` read as stopping at whitespace too
RECURSIVE ScanToQuoteOrSpace(_, _)
ScanToQuoteOrSpace(bytes, j) ==
    IF j < Len(bytes) /\ bytes[j + 1] # QUOTE /\ ~is_space(bytes[j + 1])
    THEN ScanToQuoteOrSpace(bytes, j + 1) ELSE j

\* while i < bytes.len() && bytes[i] != b'"' { i += 1; }
RECURSIVE ScanToQuote(_, _)
ScanToQuote(bytes, j) ==
    IF j < Len(bytes) /\ bytes[j + 1] # QUOTE THEN ScanToQuote(bytes, j + 1) ELSE j

\* while i < bytes.len() && !is_space(bytes[i]) { i += 1; }
RECURSIVE ScanToSpace(_, _)
ScanToSpace(bytes, j) ==
    IF j < Len(bytes) /\ ~is_space(bytes[j + 1]) THEN ScanToSpace(bytes, j + 1) ELSE j

\* the store that keeps the latest token in the last slot of a full buffer
StoreTokenKeepLast(o, cnt, tok) ==
    IF cnt < Len(o) THEN [o |-> [o EXCEPT ![cnt + 1] = tok], n |-> cnt + 1]
    ELSE IF Len(o) > 0 THEN [o |-> [o EXCEPT ![Len(o)] = tok], n |-> cnt]
    ELSE [o |-> o, n |-> cnt]

\* the store with zero-length slices dropped
StoreTokenNonEmpty(o, cnt, tok) ==
    IF cnt < Len(o) /\ tok # <<>> THEN [o |-> [o EXCEPT ![cnt + 1] = tok], n |-> cnt + 1]
    ELSE [o |-> o, n |-> cnt]

\* if n < out.len() { out[n] = tok; n += 1; }
StoreToken(o, cnt, tok) ==
    IF cnt < Len(o) THEN [o |-> [o EXCEPT ![cnt + 1] = tok], n |-> cnt + 1]
    ELSE [o |-> o, n |-> cnt]

\* the iteration without the scan past what follows a closing quote
TokenizeIterationNoConsume(ln, o, j, cnt) ==
    LET i1 == SkipSpaces(ln, j) IN
    IF i1 >= Len(ln) THEN [i |-> i1, o |-> o, n |-> cnt]
    ELSE IF ln[i1 + 1] = QUOTE THEN
        LET start == i1 + 1
            i2 == ScanToQuote(ln, start)
            st == StoreToken(o, cnt, Slice(ln, start, i2))
            i3 == IF i2 < Len(ln) THEN i2 + 1 ELSE i2
        IN  [i |-> i3, o |-> st.o, n |-> st.n]
    ELSE
        LET start == i1
            i2 == ScanToSpace(ln, start)
            st == StoreToken(o, cnt, Slice(ln, start, i2))
        IN  [i |-> i2, o |-> st.o, n |-> st.n]

\* One iteration of the outer loop of tokenize, from position j with cnt
\* tokens stored: the new position, buffer and count.
TokenizeIteration(ln, o, j, cnt) ==
    LET i1 == SkipSpaces(ln, j) IN
    IF i1 >= Len(ln) THEN [i |-> i1, o |-> o, n |-> cnt]
    ELSE IF ln[i1 + 1] = QUOTE THEN
        LET start == i1 + 1
            i2 == ScanToQuote(ln, start)
            st == StoreToken(o, cnt, Slice(ln, start, i2))
            i3 == IF i2 < Len(ln) THEN i2 + 1 ELSE i2
        IN  [i |-> ScanToSpace(ln, i3), o |-> st.o, n |-> st.n]
    ELSE
        LET start == i1
            i2 == ScanToSpace(ln, start)
            st == StoreToken(o, cnt, Slice(ln, start, i2))
        IN  [i |-> i2, o |-> st.o, n |-> st.n]

(***************************************************************************)
(* Per-type parsers                                                        *)
(***************************************************************************)
None == [some |-> FALSE]
Some(v) == [some |-> TRUE, v |-> v]

UnsignedTypes == {"u8", "u16", "u32", "u64", "u128", "usize"}
SignedTypes == {"i8", "i16", "i32", "i64", "i128", "isize"}
IntTypes == UnsignedTypes \cup SignedTypes
Types == IntTypes \cup {"f32", "f64", "bool", "char", "str", "hexstr"}

\* Width in bytes of an integer type (usize/isize of a 64-bit target).
ByteWidth(ty) ==
    CASE ty \in {"u8", "i8"} -> 1
      [] ty \in {"u16", "i16"} -> 2
      [] ty \in {"u32", "i32"} -> 4
      [] ty \in {"u64", "i64", "usize", "isize"} -> 8
      [] ty \in {"u128", "i128"} -> 16

ZeroBytes(w) == [j \in 1..w |-> 0]

IsZero(mag) == \A j \in 1..Len(mag) : mag[j] = 0

\* char::to_digit: the digit value of c, or 36 when c is no digit of any radix used
DigitValue(c) ==
    CASE c \in Range(Digits) -> IndexOf(Digits, c) - 1
      [] c \in Range(Lower) -> 9 + IndexOf(Lower, c)
      [] c \in Range(Upper) -> 9 + IndexOf(Upper, c)
      [] OTHER -> 36

\* mag * radix + carry over the bytes of mag; the last element is the carry out
RECURSIVE MulAdd(_, _, _)
MulAdd(mag, radix, carry) ==
    IF mag = <<>> THEN <<carry>>
    ELSE LET v == mag[1] * radix + carry
         IN  <<v % 256>> \o MulAdd(Tail(mag), radix, v \div 256)

\* checked_mul / checked_add over the digits: None on a non-digit or on overflow
\* of the magnitude
RECURSIVE Accumulate(_, _, _)
Accumulate(digits, radix, mag) ==
    IF digits = <<>> THEN Some(mag)
    ELSE IF DigitValue(digits[1]) >= radix THEN None
    ELSE LET r == MulAdd(mag, radix, DigitValue(digits[1]))
         IN  IF r[Len(r)] # 0 THEN None
             ELSE Accumulate(Tail(digits), radix, SubSeq(r, 1, Len(mag)))

\* the signed range taken for the range of the magnitude's width
FitsWidthOnly(mag, neg) == TRUE

\* the magnitude fits the signed type: at most 2^(bits-1) - 1, or 2^(bits-1) when negative
FitsSigned(mag, neg) ==
    LET top == mag[Len(mag)] IN
    \/ top < 128
    \/ neg /\ top = 128 /\ IsZero(SubSeq(mag, 1, Len(mag) - 1))

\* <int>::from_str_radix(src, radix)
from_str_radix(src, radix, ty) ==
    LET signed == ty \in SignedTypes IN
    IF src = <<>> THEN None
    ELSE IF src[1] \in {"+", "-"} /\ Len(src) = 1 THEN None
    ELSE LET neg == signed /\ src[1] = "-"
             digits == IF src[1] = "+" \/ neg THEN Tail(src) ELSE src
             acc == Accumulate(digits, radix, ZeroBytes(ByteWidth(ty)))
         IN  IF ~acc.some THEN None
             ELSE IF signed /\ ~FitsSigned(acc.v, neg) THEN None
             ELSE Some([neg |-> neg /\ ~IsZero(acc.v), mag |-> acc.v])

\* str::trim over the white space of the model's alphabet
RECURSIVE TrimStart(_)
TrimStart(s) == IF s # <<>> /\ is_space(s[1]) THEN TrimStart(Tail(s)) ELSE s

RECURSIVE TrimEnd(_)
TrimEnd(s) ==
    IF s # <<>> /\ is_space(s[Len(s)]) THEN TrimEnd(SubSeq(s, 1, Len(s) - 1)) ELSE s

Trim(s) == TrimEnd(TrimStart(s))

\* shell_macros: parse_int!($name, $ty)
parse_int(s0, ty) ==
    LET s == Trim(s0) IN
    IF IsPrefix(<<"0", "x">>, s) THEN from_str_radix(SubSeq(s, 3, Len(s)), 16, ty)
    ELSE IF IsPrefix(<<"0", "o">>, s) THEN from_str_radix(SubSeq(s, 3, Len(s)), 8, ty)
    ELSE IF IsPrefix(<<"0", "b">>, s) THEN from_str_radix(SubSeq(s, 3, Len(s)), 2, ty)
    ELSE from_str_radix(s, 10, ty)

\* cmd_dispatcher: parse_u::<T> and parse_i::<T> are s.parse::<T>().ok()
parse_u(s, ty) == from_str_radix(s, 10, ty)
parse_i(s, ty) == from_str_radix(s, 10, ty)

\* parse_bool comparing without regard to letter case
parse_bool_ignore_case(s) ==
    LET low == [j \in 1..Len(s) |->
                   IF s[j] \in Range(Upper) THEN Lower[IndexOf(Upper, s[j])] ELSE s[j]]
    IN  IF low \in {<<"1">>, <<"t", "r", "u", "e">>} THEN Some(TRUE)
        ELSE IF low \in {<<"0">>, <<"f", "a", "l", "s", "e">>} THEN Some(FALSE)
        ELSE None

parse_bool(s) ==
    IF s \in {<<"1">>, <<"t", "r", "u", "e">>, <<"T", "r", "u", "e">>, <<"T", "R", "U", "E">>}
    THEN Some(TRUE)
    ELSE IF s \in {<<"0">>, <<"f", "a", "l", "s", "e">>, <<"F", "a", "l", "s", "e">>,
                   <<"F", "A", "L", "S", "E">>}
    THEN Some(FALSE)
    ELSE None

\* parse_char without the test that the iterator is exhausted
parse_char_first(s) == IF s = <<>> THEN None ELSE Some(s[1])

\* let c = it.next()?; if it.next().is_none() { Some(c) } else { None }
parse_char(s) ==
    IF s = <<>> THEN None
    ELSE IF Len(s) = 1 THEN Some(s[1])
    ELSE None

\* parse_hexstr(s): bytes of the two-digit pairs, at most maxlen of them
parse_hexstr(s, maxlen) ==
    IF Len(s) % 2 # 0 \/ s = <<>> \/ (Len(s) \div 2) > maxlen THEN None
    ELSE LET byte(j) == from_str_radix(SubSeq(s, 2 * j - 1, 2 * j), 16, "u8")
             cnt == Len(s) \div 2
         IN  IF \E j \in 1..cnt : ~byte(j).some THEN None
             ELSE Some([j \in 1..cnt |-> byte(j).v.mag[1]])

\* while the next character is a decimal digit
RECURSIVE ScanDigits(_, _)
ScanDigits(s, j) ==
    IF j < Len(s) /\ s[j + 1] \in Range(Digits) THEN ScanDigits(s, j + 1) ELSE j

ToLower(c) == IF c \in Range(Upper) THEN Lower[IndexOf(Upper, c)] ELSE c

RECURSIVE DecValue(_, _)
DecValue(digits, acc) ==
    IF digits = <<>> THEN acc ELSE DecValue(Tail(digits), 10 * acc + DigitValue(digits[1]))

RECURSIVE StripLeadingZeros(_)
StripLeadingZeros(d) == IF d # <<>> /\ d[1] = "0" THEN StripLeadingZeros(Tail(d)) ELSE d

\* the decimal number (-1)^neg * digits * 10^exp without leading or trailing zero digits
RECURSIVE Decimal(_, _, _)
Decimal(neg, digits, exp) ==
    LET d == StripLeadingZeros(digits) IN
    IF d = <<>> THEN [class |-> "num", neg |-> neg, digits |-> <<>>, exp |-> 0]
    ELSE IF d[Len(d)] = "0" THEN Decimal(neg, SubSeq(d, 1, Len(d) - 1), exp + 1)
    ELSE [class |-> "num", neg |-> neg, digits |-> d, exp |-> exp]

\* parse_f::<T>(s) is s.parse::<T>().ok(): [sign] (inf | infinity | nan | number),
\* number = (digits | digits . [digits] | [digits] . digits) [(e|E) [sign] digits].
\* The value is kept as the exact decimal; binary rounding is not modelled.
parse_f(s) ==
    IF s = <<>> THEN None
    ELSE
    LET neg == s[1] = "-"
        body == IF s[1] \in {"+", "-"} THEN Tail(s) ELSE s
        low == [j \in 1..Len(body) |-> ToLower(body[j])]
        p1 == ScanDigits(body, 0)
        hasDot == p1 < Len(body) /\ body[p1 + 1] = "."
        p2 == IF hasDot THEN ScanDigits(body, p1 + 1) ELSE p1
        intd == Slice(body, 0, p1)
        fracd == IF hasDot THEN Slice(body, p1 + 1, p2) ELSE <<>>
        hasExp == p2 < Len(body) /\ body[p2 + 1] \in {"e", "E"}
        hasSign == hasExp /\ p2 + 1 < Len(body) /\ body[p2 + 2] \in {"+", "-"}
        p3 == IF hasSign THEN p2 + 2 ELSE IF hasExp THEN p2 + 1 ELSE p2
        p4 == IF hasExp THEN ScanDigits(body, p3) ELSE p2
        expd == Slice(body, p3, p4)
        e == IF hasSign /\ body[p2 + 2] = "-" THEN 0 - DecValue(expd, 0) ELSE DecValue(expd, 0)
    IN  IF low \in {<<"i", "n", "f">>, <<"i", "n", "f", "i", "n", "i", "t", "y">>}
        THEN Some([class |-> "inf", neg |-> neg])
        ELSE IF low = <<"n", "a", "n">> THEN Some([class |-> "nan", neg |-> neg])
        ELSE IF Len(intd) + Len(fracd) = 0 \/ p4 # Len(body) \/ (hasExp /\ expd = <<>>)
        THEN None
        ELSE Some(Decimal(neg, intd \o fracd, e - Len(fracd)))

(***************************************************************************)
(* Macro expansion: define_commands                                        *)
(***************************************************************************)
\* The fields of HostCounts (and the arrays of CallCtx), in declaration order.
HostCountFields ==
    <<"u8", "u16", "u32", "u64", "u128", "i8", "i16", "i32", "i64", "i128",
      "usize", "isize", "f32", "f64", "bool", "char", "str", "hexstr">>

\* The type code of each field, in the order of HostCountFields, as matched ...
\* ... by the counting loop
CountCodes(v) ==
    IF v = "shell_macros"
    THEN <<"B", "W", "D", "Q", "X", "b", "w", "d", "q", "x", "Z", "z", "f", "F", "t", "c", "s", "h">>
    ELSE <<"b", "w", "d", "q", "x", "B", "W", "D", "Q", "X", "z", "Z", "f", "F", "t", "c", "s">>

\* the statements generated with the codes of cmd_dispatcher in both crates
StmtCodesOneConvention(v) ==
    <<"b", "w", "d", "q", "x", "B", "W", "D", "Q", "X", "z", "Z", "f", "F", "t", "c", "s">>

\* ... by the statements of the generated parsers
StmtCodes(v) ==
    IF v = "shell_macros"
    THEN <<"B", "W", "D", "Q", "X", "b", "w", "d", "q", "x", "Z", "z", "f", "F", "t", "c", "s", "h">>
    ELSE <<"b", "w", "d", "q", "x", "B", "W", "D", "Q", "X", "z", "Z", "f", "F", "t", "c", "s">>

\* ... by the argument expressions of the generated wrappers
ArgCodes(v) ==
    IF v = "shell_macros"
    THEN <<"B", "W", "D", "Q", "X", "b", "w", "d", "q", "x", "Z", "z", "f", "F", "t", "c", "s", "h">>
    ELSE <<"b", "w", "d", "q", "x", "B", "W", "D", "Q", "X", "z", "Z", "f", "F", "t", "c", "s">>

\* the field a code stands for in a code table, "none" for a character matched by `_`
FieldOf(codes, ch) ==
    IF ch \in Range(codes) THEN HostCountFields[IndexOf(codes, ch)] ELSE "none"

VOID == <<"v">>

\* the HostCounts c of one descriptor
DescCounts(v, desc) ==
    [ty \in Types |-> Cardinality({j \in 1..Len(desc) : FieldOf(CountCodes(v), desc[j]) = ty})]

\* let arity = if desc == "v" { 0 } else { c.u8_c + ... }
RECURSIVE SumCounts(_, _)
SumCounts(c, fields) ==
    IF fields = <<>> THEN 0 ELSE c[fields[1]] + SumCounts(c, Tail(fields))

DescArity(v, desc) ==
    IF desc = VOID THEN 0 ELSE SumCounts(DescCounts(v, desc), HostCountFields)

\* max_counts = c in place of the field-wise maximum
host_counts_last(a, b) == b

host_counts_max(a, b) == [ty \in Types |-> IF a[ty] > b[ty] THEN a[ty] ELSE b[ty]]

\* max_counts after the loop over the descriptors
RECURSIVE max_counts(_, _)
max_counts(v, descs) ==
    IF descs = <<>> THEN [ty \in Types |-> 0]
    ELSE host_counts_max(max_counts(v, SubSeq(descs, 1, Len(descs) - 1)),
                         DescCounts(v, descs[Len(descs)]))

\* max_arity after the loop over the descriptors
RECURSIVE max_arity(_, _)
max_arity(v, descs) ==
    IF descs = <<>> THEN 0
    ELSE LET m == max_arity(v, SubSeq(descs, 1, Len(descs) - 1))
             a == DescArity(v, descs[Len(descs)])
         IN  IF a > m THEN a ELSE m

\* unique_desc after the first cnt groups
RECURSIVE unique_desc(_, _)
unique_desc(prs, cnt) ==
    IF cnt = 0 THEN <<>>
    ELSE LET u == unique_desc(prs, cnt - 1)
         IN  IF prs[cnt].desc \in Range(u) THEN u ELSE Append(u, prs[cnt].desc)

\* let arity_u8 = if spec_str == "v" { 0 } else { spec_str.chars().count() as u8 };
arity_u8(spec) == IF spec = VOID THEN 0 ELSE Len(spec) % 256

\* the FnEntry values pushed for the first cnt groups (spec_idx counts from 0)
RECURSIVE fn_entries(_, _)
fn_entries(prs, cnt) ==
    IF cnt = 0 THEN <<>>
    ELSE LET u == unique_desc(prs, cnt)
             g == prs[cnt]
         IN  fn_entries(prs, cnt - 1) \o
             [j \in 1..Len(g.funcs) |->
                [name_str |-> g.funcs[j], spec |-> g.desc, spec_idx |-> IndexOf(u, g.desc) - 1]]

\* entries.sort_by(|a, b| a.name_str.cmp(&b.name_str)): a stable sort
RECURSIVE InsertSorted(_, _)
InsertSorted(sorted, e) ==
    IF sorted = <<>> THEN <<e>>
    ELSE IF StrLess(e.name_str, sorted[Len(sorted)].name_str)
    THEN Append(InsertSorted(SubSeq(sorted, 1, Len(sorted) - 1), e), sorted[Len(sorted)])
    ELSE Append(sorted, e)

\* the entries left in the order of the macro input
keep_input_order(es) == es

RECURSIVE sort_by_name(_)
sort_by_name(es) ==
    IF es = <<>> THEN <<>>
    ELSE InsertSorted(sort_by_name(SubSeq(es, 1, Len(es) - 1)), es[Len(es)])

\* entry_inits: one Entry per sorted FnEntry; spec is the descriptor the
\* entry's wrapper was generated from (NAME_AND_SPEC pairs it with the name)
entry_inits(prs) ==
    LET es == sort_by_name(fn_entries(prs, Len(prs)))
    IN  [j \in 1..Len(es) |->
            [name |-> es[j].name_str, arity |-> arity_u8(es[j].spec),
             spec_idx |-> es[j].spec_idx, spec |-> es[j].spec]]

\* fn_names: the name literals of get_function_names(), from the sorted entries
fn_names(prs) ==
    LET es == sort_by_name(fn_entries(prs, Len(prs)))
    IN  [j \in 1..Len(es) |-> es[j].name_str]

\* name_spec_pairs: the (name, descriptor) literals of NAME_AND_SPEC, which
\* get_commands() returns
name_spec_pairs(prs) ==
    LET es == sort_by_name(fn_entries(prs, Len(prs)))
    IN  [j \in 1..Len(es) |-> <<es[j].name_str, es[j].spec>>]

(***************************************************************************)
(* The generated module: CallCtx, parsers, wrappers, find_entry            *)
(***************************************************************************)
NUL == "\\0"

\* the value CallCtx::new() fills an array of the type with
ZeroValue(ty) ==
    CASE ty \in IntTypes -> [neg |-> FALSE, mag |-> ZeroBytes(ByteWidth(ty))]
      [] ty \in {"f32", "f64"} -> Decimal(FALSE, <<>>, 0)
      [] ty = "bool" -> FALSE
      [] ty = "char" -> NUL
      [] ty \in {"str", "hexstr"} -> <<>>

\* CallCtx::new() for arrays of the given capacities
CallCtxNew(caps) == [ty \in Types |-> [j \in 1..caps[ty] |-> ZeroValue(ty)]]

NoCtx == [ty \in Types |-> <<>>]
ZeroIdx == [ty \in Types |-> 0]

\* the parse function a parser statement applies to args[k]
ParseArg(v, ty, tok, maxhex) ==
    CASE ty \in UnsignedTypes -> IF v = "shell_macros" THEN parse_int(tok, ty) ELSE parse_u(tok, ty)
      [] ty \in SignedTypes -> IF v = "shell_macros" THEN parse_int(tok, ty) ELSE parse_i(tok, ty)
      [] ty \in {"f32", "f64"} -> parse_f(tok)
      [] ty = "bool" -> parse_bool(tok)
      [] ty = "char" -> parse_char(tok)
      [] ty = "str" -> Some(tok)
      [] ty = "hexstr" -> parse_hexstr(tok, maxhex)

\* the DispatchError a parser statement maps a failed parse to
ParseError(ty) ==
    CASE ty \in UnsignedTypes -> "BadUnsigned"
      [] ty \in SignedTypes -> "BadSigned"
      [] ty \in {"f32", "f64"} -> "BadFloat"
      [] ty = "bool" -> "BadBool"
      [] ty = "char" -> "BadChar"
      [] ty = "hexstr" -> "BadHexStr"
      [] OTHER -> "none"

\* One statement of __parse_spec_N, generated for descriptor character ch:
\*   ctx.<array>[idx] = parse(args[k]).ok_or(err)?; idx += 1; k += 1;
\* The right-hand side is evaluated first; an index past the end of args or of
\* the array panics.
ParseStmt(v, ch, args, c, kk, ix, maxhex) ==
    LET ty == FieldOf(StmtCodes(v), ch) IN
    IF ty = "none" THEN [err |-> "none", ctx |-> c, k |-> kk, idx |-> ix]
    ELSE IF kk >= Len(args) THEN [err |-> "panic", ctx |-> c, k |-> kk, idx |-> ix]
    ELSE LET r == ParseArg(v, ty, args[kk + 1], maxhex) IN
         IF ~r.some THEN [err |-> ParseError(ty), ctx |-> c, k |-> kk, idx |-> ix]
         ELSE IF ix[ty] >= Len(c[ty]) THEN [err |-> "panic", ctx |-> c, k |-> kk, idx |-> ix]
         ELSE [err |-> "none",
               ctx |-> [c EXCEPT ![ty][ix[ty] + 1] = r.v],
               k |-> kk + 1,
               idx |-> [ix EXCEPT ![ty] = @ + 1]]

\* arg_exprs with the per-type index never advanced
RECURSIVE arg_exprs_first_slot(_, _, _)
arg_exprs_first_slot(v, spec, cnt) ==
    IF cnt = 0 THEN <<>>
    ELSE LET prev == arg_exprs_first_slot(v, spec, cnt - 1)
             ty == FieldOf(ArgCodes(v), spec[cnt])
         IN  IF ty = "none" THEN prev ELSE Append(prev, [array |-> ty, index |-> 0])

\* arg_exprs of a wrapper after the first cnt descriptor characters: the array
\* and the constant index each parameter is read from
RECURSIVE arg_exprs(_, _, _)
arg_exprs(v, spec, cnt) ==
    IF cnt = 0 THEN <<>>
    ELSE LET prev == arg_exprs(v, spec, cnt - 1)
             ty == FieldOf(ArgCodes(v), spec[cnt])
         IN  IF ty = "none" THEN prev
             ELSE Append(prev, [array |-> ty,
                                index |-> Cardinality({j \in 1..Len(prev) : prev[j].array = ty})])

\* arg_types of a wrapper: the parameter types of the target function, one for
\* each descriptor character that is a type code
arg_types(v, spec) ==
    LET ex == arg_exprs(v, spec, Len(spec)) IN [j \in 1..Len(ex) |-> ex[j].array]

\* the arguments __call_<name> passes to the target function
WrapperArgs(v, spec, c) ==
    LET ex == arg_exprs(v, spec, Len(spec))
    IN  [j \in 1..Len(ex) |-> c[ex[j].array][ex[j].index + 1]]

\* a lookup that accepts a name that is the start of an entry's name
find_entry_prefix(es, name) ==
    IF \E p \in 1..Len(es) : IsPrefix(name, es[p].name)
    THEN CHOOSE p \in 1..Len(es) :
            IsPrefix(name, es[p].name) /\ \A q \in 1..(p - 1) : ~IsPrefix(name, es[q].name)
    ELSE 0

\* match name { "<name>" => Some(&ENTRIES[pos]), ... _ => None }: the position of
\* the first arm that matches, 0 for None
find_entry(es, name) ==
    IF \E p \in 1..Len(es) : es[p].name = name
    THEN CHOOSE p \in 1..Len(es) : es[p].name = name /\ \A q \in 1..(p - 1) : es[q].name # name
    ELSE 0

Ok(v) == [tag |-> "Ok", v |-> v]
Err(kind) == [tag |-> "Err", kind |-> kind]
WrongArity(expected) == [tag |-> "Err", kind |-> "WrongArity", expected |-> expected]
Pending == [tag |-> "none"]
Panic == [tag |-> "panic"]

\* tokenize: the loop, from position j with cnt tokens stored
RECURSIVE TokenizeLoop(_, _, _, _)
TokenizeLoop(ln, o, j, cnt) ==
    IF j < Len(ln)
    THEN LET it == TokenizeIteration(ln, o, j, cnt) IN TokenizeLoop(ln, it.o, it.i, it.n)
    ELSE [i |-> j, o |-> o, n |-> cnt]

(***************************************************************************)
(* Inputs                                                                  *)
(***************************************************************************)
MaxArgs == 3      \* argument tokens of a line drawn from the full vocabulary
MaxExtra == 2     \* further argument tokens appended after those
MaxLineLen == 4   \* length of the lines drawn character by character
MaxBuf == 3       \* slots of a caller-supplied token buffer

Str(text) == [text |-> text, quoted |-> FALSE]
Quoted(text) == [text |-> text, quoted |-> TRUE]

\* the function names of the macro invocations below
S_Single_u8 == <<"S", "i", "n", "g", "l", "e", "_", "u", "8">>
S_WRITE == <<"W", "R", "I", "T", "E">>
S_again == <<"a", "g", "a", "i", "n">>
S_fill == <<"f", "i", "l", "l">>
S_mix == <<"m", "i", "x">>
S_nonexistent == <<"n", "o", "n", "e", "x", "i", "s", "t", "e", "n", "t">>
S_odd == <<"o", "d", "d">>
S_single_u == <<"s", "i", "n", "g", "l", "e", "_", "u">>
S_single_u8 == <<"s", "i", "n", "g", "l", "e", "_", "u", "8">>
S_single_u32 == <<"s", "i", "n", "g", "l", "e", "_", "u", "3", "2">>
S_single_u64 == <<"s", "i", "n", "g", "l", "e", "_", "u", "6", "4">>
S_single_i8 == <<"s", "i", "n", "g", "l", "e", "_", "i", "8">>
S_single_i32 == <<"s", "i", "n", "g", "l", "e", "_", "i", "3", "2">>
S_single_i64 == <<"s", "i", "n", "g", "l", "e", "_", "i", "6", "4">>
S_single_bool == <<"s", "i", "n", "g", "l", "e", "_", "b", "o", "o", "l">>
S_single_char == <<"s", "i", "n", "g", "l", "e", "_", "c", "h", "a", "r">>
S_single_hexstr == <<"s", "i", "n", "g", "l", "e", "_", "h", "e", "x", "s", "t", "r">>
S_multi_args == <<"m", "u", "l", "t", "i", "_", "a", "r", "g", "s">>
S_single_u8x == <<"s", "i", "n", "g", "l", "e", "_", "u", "8", "x">>
S_str_and_bool == <<"s", "t", "r", "_", "a", "n", "d", "_", "b", "o", "o", "l">>
S_sync == <<"s", "y", "n", "c">>
S_vb == <<"v", "b">>
S_void_fn == <<"v", "o", "i", "d", "_", "f", "n">>
S_writ == <<"w", "r", "i", "t">>
S_write == <<"w", "r", "i", "t", "e">>
S_writes == <<"w", "r", "i", "t", "e", "s">>

\* shell_macros, after its test module: "v: void_fn, B: single_u8, st: str_and_bool,
\* BtB: mix, B: again" with hexstr_size = 2
ShellMacrosInput ==
    [variant |-> "shell_macros", hexstr_size |-> 2,
     pairs |-> << [desc |-> VOID, funcs |-> <<S_void_fn>>],
                  [desc |-> <<"B">>, funcs |-> <<S_single_u8>>],
                  [desc |-> <<"s", "t">>, funcs |-> <<S_str_and_bool>>],
                  [desc |-> <<"B", "t", "B">>, funcs |-> <<S_mix>>],
                  [desc |-> <<"B">>, funcs |-> <<S_again>>] >>]

\* cmd_dispatcher: "sqb: write, v: sync, bsb: fill", no hexstr
CmdDispatcherInput ==
    [variant |-> "cmd_dispatcher", hexstr_size |-> 0,
     pairs |-> << [desc |-> <<"s", "q", "b">>, funcs |-> <<S_write>>],
                  [desc |-> VOID, funcs |-> <<S_sync>>],
                  [desc |-> <<"b", "s", "b">>, funcs |-> <<S_fill>>] >>]

\* shell_macros with descriptors that hold characters outside the type codes
LooseInput ==
    [variant |-> "shell_macros", hexstr_size |-> 2,
     pairs |-> << [desc |-> <<"B", "?">>, funcs |-> <<S_odd>>],
                  [desc |-> <<"v", "B">>, funcs |-> <<S_vb>>] >>]

\* shell_macros with single-parameter functions of the integer, bool, char and
\* hexstr codes and multi_args, as in the crate's tests
TestInput ==
    [variant |-> "shell_macros", hexstr_size |-> 3,
     pairs |-> << [desc |-> <<"B">>, funcs |-> <<S_single_u8>>],
                  [desc |-> <<"D">>, funcs |-> <<S_single_u32>>],
                  [desc |-> <<"Q">>, funcs |-> <<S_single_u64>>],
                  [desc |-> <<"b">>, funcs |-> <<S_single_i8>>],
                  [desc |-> <<"d">>, funcs |-> <<S_single_i32>>],
                  [desc |-> <<"q">>, funcs |-> <<S_single_i64>>],
                  [desc |-> <<"t">>, funcs |-> <<S_single_bool>>],
                  [desc |-> <<"c">>, funcs |-> <<S_single_char>>],
                  [desc |-> <<"h">>, funcs |-> <<S_single_hexstr>>],
                  [desc |-> <<"D", "d", "F", "s", "t">>, funcs |-> <<S_multi_args>>] >>]

\* shell_macros: "B: single_u8, BtB: mix", the invocation the repeated calls are
\* observed under
RepeatInput ==
    [variant |-> "shell_macros", hexstr_size |-> 2,
     pairs |-> << [desc |-> <<"B">>, funcs |-> <<S_single_u8>>],
                  [desc |-> <<"B", "t", "B">>, funcs |-> <<S_mix>>] >>]

\* shell_macros with the descriptors of the examples of the crate documentation:
\* "DdFsb: example, t: flag, v: nop"
S_example == <<"e", "x", "a", "m", "p", "l", "e">>
S_flag == <<"f", "l", "a", "g">>
S_nop == <<"n", "o", "p">>

DocInput ==
    [variant |-> "shell_macros", hexstr_size |-> 2,
     pairs |-> << [desc |-> <<"D", "d", "F", "s", "b">>, funcs |-> <<S_example>>],
                  [desc |-> <<"t">>, funcs |-> <<S_flag>>],
                  [desc |-> VOID, funcs |-> <<S_nop>>] >>]

\* macro invocations whose descriptors consist of type codes (or are "v")
TypedInputs == {ShellMacrosInput, CmdDispatcherInput}
AllInputs == TypedInputs \cup {LooseInput}

\* first tokens that name no function of the invocation
OtherNames(inp) ==
    IF inp = ShellMacrosInput THEN {S_Single_u8, S_single_u, S_single_u8x}
    ELSE IF inp = CmdDispatcherInput THEN {S_WRITE, S_writ, S_writes}
    ELSE {S_nonexistent}

\* the argument tokens lines are built from
ArgTokens(inp) ==
    IF inp = ShellMacrosInput
    THEN {Str(<<"2", "5", "5">>), Str(<<"2", "5", "6">>), Str(<<"t", "r", "u", "e">>),
          Quoted(<<"a", SP, "b">>)}
    ELSE IF inp = CmdDispatcherInput
    THEN {Quoted(<<"l", "o", "g", ".", "t", "x", "t">>), Str(<<"1", "0", "0">>),
          Str(<<"2", "5", "5">>), Str(<<"2", "5", "6">>)}
    ELSE {Str(<<"1">>), Str(<<"x">>)}

Extra == Str(<<"7">>)

RegisteredNames(inp) ==
    UNION {Range(inp.pairs[g].funcs) : g \in 1..Len(inp.pairs)}

Render(tok) == IF tok.quoted THEN <<QUOTE>> \o tok.text \o <<QUOTE>> ELSE tok.text

RECURSIVE JoinArgs(_)
JoinArgs(toks) ==
    IF toks = <<>> THEN <<>> ELSE <<SP>> \o Render(toks[1]) \o JoinArgs(Tail(toks))

SeqsUpTo(S, m) == UNION {[1..len -> S] : len \in 0..m}

Names(inp) == RegisteredNames(inp) \cup OtherNames(inp)

\* lines "name arg ... arg" with up to MaxArgs tokens of the vocabulary
RichLines(inp) ==
    {nm \o JoinArgs(args) : nm \in Names(inp), args \in SeqsUpTo(ArgTokens(inp), MaxArgs)}

\* lines "name 7 ... 7" with up to MaxArgs + MaxExtra arguments
LongLines(inp) ==
    {nm \o JoinArgs([j \in 1..x |-> Extra]) : nm \in Names(inp), x \in 0..(MaxArgs + MaxExtra)}

StructuredLines(inp) == RichLines(inp) \cup LongLines(inp)

\* every line of at most MaxLineLen characters over space, tab, quote, line feed
\* and a letter
RawLines == SeqsUpTo({SP, TAB, QUOTE, LF, "a"}, MaxLineLen)

\* lines of spaces and tabs, the empty line among them
BlankLines == SeqsUpTo({SP, TAB}, MaxLineLen)

\* lines of the tests of tokenize
L_cmd_quoted == <<"c", "m", "d", SP, QUOTE, "a", SP, "b", QUOTE, SP, "c">>
L_adjacent == <<QUOTE, "f", "i", "r", "s", "t", QUOTE, QUOTE, "s", "e", "c", "o", "n", "d", QUOTE>>
L_trailing == <<QUOTE, "a", QUOTE, "x", "y", "z", SP, "b">>
L_empty_quotes == <<"c", "m", "d", SP, QUOTE, QUOTE, SP, "a", "r", "g">>
TestLines == {L_cmd_quoted, L_adjacent, L_trailing, L_empty_quotes}

\* integer literals of the forms decimal, minus sign and decimal, and 0x, 0o or 0b
\* and digits, each with the value it denotes: sign and magnitude, the magnitude
\* as little-endian bytes without leading zero bytes
IntLiterals ==
    {
      [text |-> <<"0">>, neg |-> FALSE, mag |-> <<>>],
      [text |-> <<"7">>, neg |-> FALSE, mag |-> <<7>>],
      [text |-> <<"0", "0", "7">>, neg |-> FALSE, mag |-> <<7>>],
      [text |-> <<"2", "5", "5">>, neg |-> FALSE, mag |-> <<255>>],
      [text |-> <<"2", "5", "6">>, neg |-> FALSE, mag |-> <<0, 1>>],
      [text |-> <<"-", "1">>, neg |-> TRUE, mag |-> <<1>>],
      [text |-> <<"1", "2", "7">>, neg |-> FALSE, mag |-> <<127>>],
      [text |-> <<"1", "2", "8">>, neg |-> FALSE, mag |-> <<128>>],
      [text |-> <<"-", "1", "2", "8">>, neg |-> TRUE, mag |-> <<128>>],
      [text |-> <<"-", "1", "2", "9">>, neg |-> TRUE, mag |-> <<129>>],
      [text |-> <<"6", "5", "5", "3", "5">>, neg |-> FALSE, mag |-> <<255, 255>>],
      [text |-> <<"2", "1", "4", "7", "4", "8", "3", "6", "4", "7">>, neg |-> FALSE, mag |-> <<255, 255, 255, 127>>],
      [text |-> <<"2", "1", "4", "7", "4", "8", "3", "6", "4", "8">>, neg |-> FALSE, mag |-> <<0, 0, 0, 128>>],
      [text |-> <<"-", "2", "1", "4", "7", "4", "8", "3", "6", "4", "8">>, neg |-> TRUE, mag |-> <<0, 0, 0, 128>>],
      [text |-> <<"-", "2", "1", "4", "7", "4", "8", "3", "6", "4", "9">>, neg |-> TRUE, mag |-> <<1, 0, 0, 128>>],
      [text |-> <<"4", "2", "9", "4", "9", "6", "7", "2", "9", "5">>, neg |-> FALSE, mag |-> <<255, 255, 255, 255>>],
      [text |-> <<"4", "2", "9", "4", "9", "6", "7", "2", "9", "6">>, neg |-> FALSE, mag |-> <<0, 0, 0, 0, 1>>],
      [text |-> <<"9", "2", "2", "3", "3", "7", "2", "0", "3", "6", "8", "5", "4", "7", "7", "5", "8", "0", "7">>, neg |-> FALSE, mag |-> <<255, 255, 255, 255, 255, 255, 255, 127>>],
      [text |-> <<"9", "2", "2", "3", "3", "7", "2", "0", "3", "6", "8", "5", "4", "7", "7", "5", "8", "0", "8">>, neg |-> FALSE, mag |-> <<0, 0, 0, 0, 0, 0, 0, 128>>],
      [text |-> <<"-", "9", "2", "2", "3", "3", "7", "2", "0", "3", "6", "8", "5", "4", "7", "7", "5", "8", "0", "8">>, neg |-> TRUE, mag |-> <<0, 0, 0, 0, 0, 0, 0, 128>>],
      [text |-> <<"-", "9", "2", "2", "3", "3", "7", "2", "0", "3", "6", "8", "5", "4", "7", "7", "5", "8", "0", "9">>, neg |-> TRUE, mag |-> <<1, 0, 0, 0, 0, 0, 0, 128>>],
      [text |-> <<"1", "8", "4", "4", "6", "7", "4", "4", "0", "7", "3", "7", "0", "9", "5", "5", "1", "6", "1", "5">>, neg |-> FALSE, mag |-> <<255, 255, 255, 255, 255, 255, 255, 255>>],
      [text |-> <<"1", "8", "4", "4", "6", "7", "4", "4", "0", "7", "3", "7", "0", "9", "5", "5", "1", "6", "1", "6">>, neg |-> FALSE, mag |-> <<0, 0, 0, 0, 0, 0, 0, 0, 1>>],
      [text |-> <<"0", "x", "F", "F">>, neg |-> FALSE, mag |-> <<255>>],
      [text |-> <<"0", "o", "3", "7", "7">>, neg |-> FALSE, mag |-> <<255>>],
      [text |-> <<"0", "b", "1", "1", "1", "1", "1", "1", "1", "1">>, neg |-> FALSE, mag |-> <<255>>],
      [text |-> <<"0", "x", "7", "F">>, neg |-> FALSE, mag |-> <<127>>],
      [text |-> <<"0", "x", "8", "0">>, neg |-> FALSE, mag |-> <<128>>],
      [text |-> <<"0", "x", "1", "0", "0">>, neg |-> FALSE, mag |-> <<0, 1>>],
      [text |-> <<"0", "x", "F", "F", "F", "F", "F", "F", "F", "F">>, neg |-> FALSE, mag |-> <<255, 255, 255, 255>>],
      [text |-> <<"0", "x", "a", "b", "c", "d", "e", "f">>, neg |-> FALSE, mag |-> <<239, 205, 171>>],
      [text |-> <<"0", "x", "A", "B", "C", "D", "E", "F">>, neg |-> FALSE, mag |-> <<239, 205, 171>>],
      [text |-> <<"0", "o", "7", "7", "7">>, neg |-> FALSE, mag |-> <<255, 1>>],
      [text |-> <<"0", "b", "1", "0", "1", "0">>, neg |-> FALSE, mag |-> <<10>>],
      [text |-> <<"0", "x", "0">>, neg |-> FALSE, mag |-> <<>>],
      [text |-> <<"0", "o", "0">>, neg |-> FALSE, mag |-> <<>>],
      [text |-> <<"0", "b", "0">>, neg |-> FALSE, mag |-> <<>>],
      [text |-> <<"0", "x", "7", "F", "F", "F", "F", "F", "F", "F">>, neg |-> FALSE, mag |-> <<255, 255, 255, 127>>],
      [text |-> <<"0", "x", "F", "F", "F", "F", "F", "F", "F", "F", "F", "F", "F", "F", "F", "F", "F", "F">>, neg |-> FALSE, mag |-> <<255, 255, 255, 255, 255, 255, 255, 255>>],
      [text |-> <<"0", "x", "1", "0", "0", "0", "0", "0", "0", "0", "0", "0", "0", "0", "0", "0", "0", "0", "0">>, neg |-> FALSE, mag |-> <<0, 0, 0, 0, 0, 0, 0, 0, 1>>]
    }

\* tokens that are no integer literal
MalformedInts ==
    {<<>>,
     <<"a", "b", "c">>,
     <<"0", "x">>,
     <<"0", "o">>,
     <<"0", "b">>,
     <<"0", "x", "G", "1">>,
     <<"0", "o", "8">>,
     <<"0", "b", "2">>,
     <<"1", ".", "5">>,
     <<"-">>,
     <<"1", "2", "a">>,
     <<"1", "e", "5">>}

\* literals with an upper-case radix prefix, and with a minus sign before the prefix
UpperPrefixInts == {<<"0", "X", "1", "0", "0">>, <<"0", "O", "7", "7", "7">>, <<"0", "B", "1", "0", "1", "0">>}
MinusPrefixInts == {<<"-", "0", "x", "1", "0">>}

IntFunctions == {S_single_u8, S_single_u32, S_single_u64, S_single_i8, S_single_i32, S_single_i64}

\* a token as it is written in a line: in quotes when it is empty or holds a space
Written(text) ==
    IF text = <<>> \/ SP \in Range(text) THEN <<QUOTE>> \o text \o <<QUOTE>> ELSE text

IntLines ==
    {nm \o <<SP>> \o Written(tx) :
        nm \in IntFunctions,
        tx \in {l.text : l \in IntLiterals} \cup MalformedInts \cup UpperPrefixInts \cup MinusPrefixInts}

\* tokens for a bool, a char and a hexstr parameter
BoolTokens ==
    {<<"t", "r", "u", "e">>, <<"T", "r", "u", "e">>, <<"T", "R", "U", "E">>, <<"1">>,
     <<"f", "a", "l", "s", "e">>, <<"F", "a", "l", "s", "e">>,
     <<"F", "A", "L", "S", "E">>, <<"0">>, <<"y", "e", "s">>, <<"n", "o">>, <<"2">>,
     <<"0", "1">>, <<"t", "R", "u", "e">>, <<"f", "A", "L", "S", "E">>, <<"T">>,
     <<"t", "r", "u", "e", "e">>, <<>>}

CharTokens ==
    {<<"a">>, <<"Z">>, <<"5">>, <<"@">>, <<SP>>, <<"a", "b">>, <<"a", "b", "c">>,
     <<"a", SP, "b">>, <<>>}

RECURSIVE Repeat(_, _)
Repeat(text, times) == IF times = 0 THEN <<>> ELSE text \o Repeat(text, times - 1)

HexTokens ==
    {<<"A", "A", "B", "B", "C", "C">>, <<"a", "a", "b", "b", "c", "c">>,
     <<"a", "A", "b", "B">>, <<"0", "0">>, <<"A", "A", "B">>, <<"A">>,
     <<"G", "G", "H", "H", "I", "I">>, <<"A", "A", "G", "G">>, <<"0", "x">>,
     <<"+", "A">>, <<"A", "A", "+", "B">>, <<"-", "A">>, <<>>,
     Repeat(<<"A", "A">>, TestInput.hexstr_size), Repeat(<<"A", "A">>, TestInput.hexstr_size + 1)}

\* the lines of test_multi_args
L_multi_prefix == <<"m", "u", "l", "t", "i", "_", "a", "r", "g", "s", SP, "0", "x", "F", "F", SP, "-", "0", "x", "1", "0", SP, "1", "e", "5", SP, QUOTE, "q", "u", "o", "t", "e", "d", QUOTE, SP, "1">>
L_multi_plain == <<"m", "u", "l", "t", "i", "_", "a", "r", "g", "s", SP, "1", "0", "0", SP, "-", "5", "0", SP, "3", ".", "1", "4", SP, QUOTE, "t", "e", "s", "t", SP, "s", "t", "r", "i", "n", "g", QUOTE, SP, "t", "r", "u", "e">>
L_multi_zero == <<"m", "u", "l", "t", "i", "_", "a", "r", "g", "s", SP, "0", SP, "0", SP, "0", ".", "0", SP, "e", "m", "p", "t", "y", SP, "f", "a", "l", "s", "e">>

\* the lines dispatch is called with under the macro invocation TestInput
ParseLines ==
    IntLines
    \cup {S_single_bool \o <<SP>> \o Written(tx) : tx \in BoolTokens}
    \cup {S_single_char \o <<SP>> \o Written(tx) : tx \in CharTokens}
    \cup {S_single_hexstr \o <<SP>> \o Written(tx) : tx \in HexTokens}
    \cup {L_multi_prefix, L_multi_plain, L_multi_zero}

\* the lines dispatch is called with under the macro invocation RepeatInput:
\* calls that succeed, and calls that fail at each stage and at each argument
RepeatLines ==
    {<<>>,
     S_nonexistent,
     S_single_u8 \o <<SP, "7">>,
     S_single_u8 \o <<SP, "9">>,
     S_single_u8 \o <<SP, "2", "5", "6">>,
     S_mix \o <<SP, "1", SP, "2">>,
     S_mix \o <<SP, "7", SP, "t", "r", "u", "e", SP, "9">>,
     S_mix \o <<SP, "7", SP, "x", SP, "9">>,
     S_mix \o <<SP, "7", SP, "t", "r", "u", "e", SP, "x">>}

\* the lines dispatch is called with under the macro invocation DocInput: the
\* five arguments of example with a truth value, a small integer, and a
\* character string as the last one
L_example_true == S_example \o <<SP, "1", "0", "0", SP, "-", "5", "0", SP, "1", ".", "5", SP, "x", SP, "t", "r", "u", "e">>
L_example_1 == S_example \o <<SP, "1", "0", "0", SP, "-", "5", "0", SP, "1", ".", "5", SP, "x", SP, "1">>
L_example_minus == S_example \o <<SP, "1", "0", "0", SP, "-", "5", "0", SP, "1", ".", "5", SP, "x", SP, "-", "7">>
L_example_false == S_example \o <<SP, "1", "0", "0", SP, "-", "5", "0", SP, "1", ".", "5", SP, "x", SP, "f", "a", "l", "s", "e">>

DocLines ==
    {L_example_true, L_example_1, L_example_minus, L_example_false,
     S_flag \o <<SP, "t", "r", "u", "e">>, S_flag \o <<SP, "-", "7">>, S_nop, <<>>}

(***************************************************************************)
(* State machine                                                           *)
(***************************************************************************)
Generated(inp) ==
    LET descs == unique_desc(inp.pairs, Len(inp.pairs)) IN
    /\ variant = inp.variant
    /\ macro_input = inp
    /\ PARAM_SPECS = descs
    /\ ENTRIES = entry_inits(inp.pairs)
    /\ MAX = max_counts(inp.variant, descs)
    /\ MAX_ARITY = max_arity(inp.variant, descs)
    /\ MAX_HEXSTR_LEN = inp.hexstr_size

\* History::<HTC, HME>: the bytes of the ring and the number of its entries
HTC == 4
HME == 3

\* History::new: an empty ring, every slot None
new ==
    [data          |-> [j \in 1..HTC |-> NUL],
     entries       |-> [j \in 1..HME |-> None],
     data_head     |-> 0,
     entry_head    |-> 0,
     entry_size    |-> 0,
     current_index |-> 0]

\* no operation on the history or the input parser yet
NoOp == [name |-> "none"]

\* Autocomplete::new
new_autocomplete(candidates) ==
    [candidates |-> candidates, filtered |-> <<>>, input |-> <<>>, tab_index |-> 0]

Idle ==
    /\ pc = "idle"
    /\ entry = "none"
    /\ line = <<>>
    /\ out = <<>>
    /\ i = 0
    /\ n = 0
    /\ ent = 0
    /\ ctx = NoCtx
    /\ pos = 0
    /\ k = 0
    /\ idx = ZeroIdx
    /\ calls = <<>>
    /\ result = Pending
    /\ memo = <<>>
    /\ history = new
    /\ buffer = <<>>
    /\ op = NoOp
    /\ execd = <<>>
    /\ evicted = {}
    /\ autocomplete = new_autocomplete(<<>>)

Init == (\E inp \in TypedInputs : Generated(inp)) /\ Idle

InitAny == (\E inp \in AllInputs : Generated(inp)) /\ Idle

InitParse == Generated(TestInput) /\ Idle

InitRepeat == Generated(RepeatInput) /\ Idle

InitDoc == Generated(DocInput) /\ Idle

static == <<variant, macro_input, PARAM_SPECS, ENTRIES, MAX, MAX_ARITY, MAX_HEXSTR_LEN>>

Call(fn, ln, slots) ==
    /\ pc' = "tokenize"
    /\ entry' = fn
    /\ line' = ln
    /\ out' = [j \in 1..slots |-> <<>>]
    /\ UNCHANGED <<static, memo, shell, i, n, ent, ctx, pos, k, idx, calls, result>>

\* a buffer with room for the name and MAX_ARITY arguments only
DispatchSlotsNoSpare == 1 + MAX_ARITY

\* let mut toks: [&str; 2 + MAX_ARITY] = [""; 2 + MAX_ARITY];
DispatchSlots == 2 + MAX_ARITY

\* the lines dispatch is called with
DispatchLines(inp) ==
    IF inp = TestInput THEN ParseLines
    ELSE IF inp = RepeatInput THEN RepeatLines
    ELSE IF inp = DocInput THEN DocLines
    ELSE StructuredLines(inp) \cup BlankLines

\* dispatch(line)
call_dispatch ==
    /\ pc = "idle"
    /\ \E ln \in DispatchLines(macro_input) : Call("dispatch", ln, DispatchSlots)

\* dispatch_with_buf(line, toks) with a buffer of the caller
call_dispatch_with_buf ==
    /\ pc = "idle"
    /\ \E ln \in LongLines(macro_input), slots \in 0..MaxBuf :
        Call("dispatch_with_buf", ln, slots)

\* tokenize(line, out) called directly; its text is the same in both crates, the
\* one of shell_macros is called
TokenizeLines(inp) ==
    IF inp = ShellMacrosInput THEN RawLines \cup TestLines
    ELSE IF inp \in {TestInput, RepeatInput, DocInput} THEN TestLines
    ELSE {}

call_tokenize ==
    /\ pc = "idle"
    /\ \E ln \in TokenizeLines(macro_input), slots \in 0..MaxBuf : Call("tokenize", ln, slots)

\* tokenize(line, out), and the `?` of dispatch_with_buf on its result
tokenize ==
    /\ pc = "tokenize"
    /\ LET t == TokenizeLoop(line, out, 0, 0) IN
       /\ i' = t.i
       /\ n' = t.n
       /\ out' = t.o
       /\ IF t.n = 0 THEN pc' = "done" /\ result' = Err("Empty")
          ELSE IF entry = "tokenize" THEN pc' = "done" /\ result' = Ok(t.n)
          ELSE pc' = "resolve" /\ result' = result
    /\ UNCHANGED <<static, memo, shell, entry, line, ent, ctx, pos, k, idx, calls>>

\* let got_arity = (len - 1) as u16;
got_arity == (n - 1) % 65536

\* let name = toks[0]; let ent = find_entry(name).ok_or(UnknownFunction)?;
resolve ==
    /\ pc = "resolve"
    /\ LET e == find_entry(ENTRIES, out[1]) IN
       /\ ent' = e
       /\ IF e = 0 THEN pc' = "done" /\ result' = Err("UnknownFunction")
          ELSE pc' = "arity" /\ result' = result
    /\ UNCHANGED <<static, memo, shell, entry, line, out, i, n, ctx, pos, k, idx, calls>>

\* the arity check with `<` for `!=`: only too few arguments are refused
arity_check_too_few_only ==
    /\ pc = "arity"
    /\ IF got_arity < ENTRIES[ent].arity
       THEN /\ pc' = "done"
            /\ result' = WrongArity(ENTRIES[ent].arity)
            /\ ctx' = ctx
       ELSE /\ pc' = "parse"
            /\ result' = result
            /\ ctx' = CallCtxNew(MAX)
    /\ UNCHANGED <<static, memo, shell, entry, line, out, i, n, ent, pos, k, idx, calls>>

\* if got_arity != ent.arity as u16 { return Err(WrongArity { expected: ent.arity }); }
\* let mut ctx = CallCtx::new();
arity_check ==
    /\ pc = "arity"
    /\ IF got_arity # ENTRIES[ent].arity
       THEN /\ pc' = "done"
            /\ result' = WrongArity(ENTRIES[ent].arity)
            /\ ctx' = ctx
       ELSE /\ pc' = "parse"
            /\ result' = result
            /\ ctx' = CallCtxNew(MAX)
    /\ UNCHANGED <<static, memo, shell, entry, line, out, i, n, ent, pos, k, idx, calls>>

\* the descriptor of the parser of the resolved entry, __parse_spec_<spec_idx>
ParserSpec == PARAM_SPECS[ENTRIES[ent].spec_idx + 1]

\* let args_tokens: &[&str] = &toks[1..len];
args_tokens == SubSeq(out, 2, n)

\* (ent.parser)(&mut ctx, args_tokens)?: the next statement of the parser, and
\* its Ok(()) after the last one
parse_stmt ==
    /\ pc = "parse"
    /\ IF pos >= Len(ParserSpec)
       THEN /\ pc' = "invoke"
            /\ UNCHANGED <<ctx, pos, k, idx, result>>
       ELSE LET r == ParseStmt(variant, ParserSpec[pos + 1], args_tokens, ctx, k, idx,
                               MAX_HEXSTR_LEN) IN
            /\ ctx' = r.ctx
            /\ k' = r.k
            /\ idx' = r.idx
            /\ pos' = pos + 1
            /\ IF r.err = "none" THEN pc' = "parse" /\ result' = result
               ELSE IF r.err = "panic" THEN pc' = "done" /\ result' = Panic
               ELSE pc' = "done" /\ result' = Err(r.err)
    /\ UNCHANGED <<static, memo, shell, entry, line, out, i, n, ent, calls>>

\* a wrapper that names the target function without calling it: let _ = path; Ok(())
invoke_not_called ==
    /\ pc = "invoke"
    /\ result' = Ok(<<>>)
    /\ pc' = "done"
    /\ UNCHANGED <<static, memo, shell, entry, line, out, i, n, ent, ctx, pos, k, idx, calls>>

\* (ent.caller)(&mut ctx, args): let _ = path(arg_exprs); Ok(())
invoke ==
    /\ pc = "invoke"
    /\ calls' = Append(calls, [name |-> ENTRIES[ent].name,
                               args |-> WrapperArgs(variant, ENTRIES[ent].spec, ctx)])
    /\ result' = Ok(<<>>)
    /\ pc' = "done"
    /\ UNCHANGED <<static, memo, shell, entry, line, out, i, n, ent, ctx, pos, k, idx>>

\* What the observer holds after the running call: under RepeatInput it may
\* remember one finished dispatch call, and then records whether a later call failed.
Remembered ==
    IF macro_input # RepeatInput THEN {memo}
    ELSE IF memo = <<>>
    THEN IF entry = "dispatch"
         THEN {<<>>, <<[line |-> line, result |-> result, calls |-> calls, failed |-> FALSE]>>}
         ELSE {<<>>}
    ELSE {<<[memo[1] EXCEPT !.failed = @ \/ result.tag = "Err"]>>}

\* the call returns with the per-type indices of the parser kept in statics
return_keeps_idx ==
    /\ pc = "done"
    /\ pc' = "idle"
    /\ entry' = "none"
    /\ line' = <<>>
    /\ out' = <<>>
    /\ i' = 0
    /\ n' = 0
    /\ ent' = 0
    /\ ctx' = NoCtx
    /\ pos' = 0
    /\ k' = 0
    /\ idx' = idx
    /\ calls' = <<>>
    /\ result' = Pending
    /\ memo' \in Remembered
    /\ UNCHANGED <<static, shell>>

\* the call returns; token buffer and CallCtx go out of scope
return ==
    /\ pc = "done"
    /\ pc' = "idle"
    /\ entry' = "none"
    /\ line' = <<>>
    /\ out' = <<>>
    /\ i' = 0
    /\ n' = 0
    /\ ent' = 0
    /\ ctx' = NoCtx
    /\ pos' = 0
    /\ k' = 0
    /\ idx' = ZeroIdx
    /\ calls' = <<>>
    /\ result' = Pending
    /\ memo' \in Remembered
    /\ UNCHANGED <<static, shell>>

Next ==
    \/ call_dispatch
    \/ call_dispatch_with_buf
    \/ call_tokenize
    \/ tokenize
    \/ resolve
    \/ arity_check
    \/ parse_stmt
    \/ invoke
    \/ return

Spec == Init /\ [][Next]_vars

SpecAny == InitAny /\ [][Next]_vars

SpecParse == InitParse /\ [][Next]_vars

SpecRepeat == InitRepeat /\ [][Next]_vars

SpecDoc == InitDoc /\ [][Next]_vars

(***************************************************************************)
(* Shortcut dispatcher (ushell_dispatcher/src/shortcutsgen/mod.rs)         *)
(***************************************************************************)
\* str::trim: the white space of the model's alphabet is space, tab, line feed
WhiteSpace == {SP, TAB, LF}

RECURSIVE trim_start(_)
trim_start(s) == IF s # <<>> /\ s[1] \in WhiteSpace THEN trim_start(Tail(s)) ELSE s

RECURSIVE trim_end(_)
trim_end(s) ==
    IF s # <<>> /\ s[Len(s)] \in WhiteSpace THEN trim_end(SubSeq(s, 1, Len(s) - 1)) ELSE s

trim(s) == trim_end(trim_start(s))

\* the shortcut mapping file of the tests: a prefix and its keys with their functions
ShortcutsInput ==
    << [prefix |-> <<"!">>, keys |-> << [key |-> <<"+">>, func |-> "bang_plus"],
                                        [key |-> <<"-">>, func |-> "bang_minus"] >>],
       [prefix |-> <<"+">>, keys |-> << [key |-> <<"-">>, func |-> "plus_minus"] >>],
       [prefix |-> <<"?">>, keys |-> << [key |-> <<"+">>, func |-> "question_plus"],
                                        [key |-> <<"?">>, func |-> "question_question"] >>] >>

\* match_arms: one arm full_key => { path(param); Ok(()) } per key of each prefix
RECURSIVE match_arms(_)
match_arms(groups) ==
    IF groups = <<>> THEN <<>>
    ELSE LET g == groups[1] IN
         [j \in 1..Len(g.keys) |-> [full_key |-> g.prefix \o g.keys[j].key,
                                    path |-> g.keys[j].func]]
         \o match_arms(Tail(groups))

\* heapless::String<{shortcut_size}> of the generated dispatch
shortcut_size == 64

\* write!(msg, ...) into a heapless::String of capacity cap: the pieces are
\* pushed in order, a piece that does not fit is not pushed and ends the write
RECURSIVE write(_, _, _)
write(msg, pieces, cap) ==
    IF pieces = <<>> THEN msg
    ELSE IF Len(msg) + Len(pieces[1]) > cap THEN msg
    ELSE write(msg \o pieces[1], Tail(pieces), cap)

UnknownShortcut == <<"U", "n", "k", "n", "o", "w", "n", SP, "s", "h", "o", "r", "t", "c", "u", "t">>

\* the key and the parameter with the remainder of the input left untrimmed
key_param_untrimmed(trimmed) ==
    IF Len(trimmed) >= 2
    THEN [key |-> SubSeq(trimmed, 1, 2), param |-> SubSeq(trimmed, 3, Len(trimmed))]
    ELSE [key |-> trimmed, param |-> <<>>]

\* let (key, param) = if trimmed.len() >= 2 { (&trimmed[..2], trimmed[2..].trim()) }
\*                    else { (trimmed, "") };
key_param(trimmed) ==
    IF Len(trimmed) >= 2
    THEN [key |-> SubSeq(trimmed, 1, 2), param |-> trim(SubSeq(trimmed, 3, Len(trimmed)))]
    ELSE [key |-> trimmed, param |-> <<>>]

ErrMsg(msg) == [tag |-> "Err", msg |-> msg]

\* the inputs of the shortcut dispatch: blanks, a key, a parameter, blanks
ShortcutKeys ==
    {<<"!", "+">>, <<"!", "-">>, <<"+", "-">>, <<"?", "+">>, <<"?", "?">>, <<"@", "@">>,
     <<"x", "y">>, <<"!", "x">>, <<"+", "+">>, <<"!">>, <<"+">>, <<"x">>, <<>>}

ShortcutParams ==
    {<<>>, <<"4", "2">>, <<SP, "4", "2">>, <<SP, SP, SP, "p", "a", "r", "a", "m">>,
     <<SP, "h", "e", "l", "l", "o", SP, "w", "o", "r", "l", "d">>, <<TAB, "!", "+">>}

ShortcutInputs ==
    {lead \o ky \o par \o trail :
        lead \in {<<>>, <<SP, SP>>}, ky \in ShortcutKeys, par \in ShortcutParams,
        trail \in {<<>>, <<SP>>, <<TAB, SP>>}}

\* shortcuts::dispatch(input)
shortcuts_dispatch ==
    /\ pc = "idle"
    /\ \E input \in ShortcutInputs :
          LET trimmed == trim(input)
              kp == key_param(trimmed)
              arms == match_arms(ShortcutsInput)
              hit == {a \in 1..Len(arms) : arms[a].full_key = kp.key}
          IN  /\ line' = input
              /\ IF hit # {}
                 THEN LET a == CHOOSE a \in hit : \A b \in hit : a <= b IN
                      /\ calls' = << [name |-> arms[a].path, args |-> <<kp.param>>] >>
                      /\ result' = Ok(<<>>)
                 ELSE /\ calls' = <<>>
                      /\ result' = ErrMsg(write(<<>>, <<UnknownShortcut \o <<":", SP>>, kp.key>>,
                                                shortcut_size))
    /\ pc' = "done"
    /\ entry' = "shortcuts::dispatch"
    /\ UNCHANGED <<static, memo, shell, out, i, n, ent, ctx, pos, k, idx>>

InitShortcuts == Generated(ShellMacrosInput) /\ Idle

NextShortcuts ==
    \/ shortcuts_dispatch
    \/ return

SpecShortcuts == InitShortcuts /\ [][NextShortcuts]_vars

(***************************************************************************)
(* Command history (shell_core/src/history/mod.rs)                         *)
(*                                                                         *)
(* A ring of HTC bytes and a ring of HME entry slots.  The operators below *)
(* are the methods of History, computed on the record of its fields; the   *)
(* actions call them from outside, as the input parser and the tests do,   *)
(* and `op` remembers the call and what it returned.                       *)
(***************************************************************************)
min(a, b) == IF a < b THEN a ELSE b

\* the variables of the dispatchers, which no history operation touches
dispatcher == <<static, memo, pc, entry, line, out, i, n, ent, ctx, pos, k, idx, calls, result>>

\* the slot of the oldest live entry
oldest_idx(h) == (h.entry_head + HME - h.entry_size) % HME

\* History::get::<IML>: entry `index` counted from the oldest, cut to IML bytes
get(h, index, iml) ==
    IF index >= h.entry_size THEN None
    ELSE LET slot == (h.entry_head + HME - h.entry_size + index) % HME
             meta == h.entries[slot + 1]
         IN  IF ~meta.some THEN None
             ELSE Some([j \in 1..min(meta.v.length, iml) |->
                           h.data[((meta.v.offset + j - 1) % HTC) + 1]])

\* push without its duplicate check
is_duplicate_never(h, trimmed) == FALSE

\* push, "Check for duplicates"
is_duplicate(h, trimmed) ==
    \E j \in 0..(h.entry_size - 1) :
        LET existing == get(h, j, HTC) IN existing.some /\ trim(existing.v) = trimmed

RECURSIVE used(_, _)
\* push, "Calculate used space": the lengths of the live entries from entry j on
used(h, j) ==
    IF j >= h.entry_size THEN 0
    ELSE LET meta == h.entries[((h.entry_head + HME - h.entry_size + j) % HME) + 1]
         IN  (IF meta.some THEN meta.v.length ELSE 0) + used(h, j + 1)

\* the eviction loop of push without its byte test: nothing is evicted to make room
make_space_never(h, free, len) == h

RECURSIVE make_space(_, _, _)
\* push, "Remove oldest entries until enough space is available"
make_space(h, free, len) ==
    IF free < len /\ h.entry_size > 0
    THEN LET meta == h.entries[oldest_idx(h) + 1]
         IN  make_space([h EXCEPT !.entries[oldest_idx(h) + 1] = None,
                                  !.entry_size = @ - 1],
                        free + (IF meta.some THEN meta.v.length ELSE 0),
                        len)
    ELSE h

\* History::push: the history afterwards and the returned flag
push(h, s) ==
    LET trimmed == trim(s)
        len == Len(trimmed)
    IN  IF len > HTC THEN [h |-> h, ret |-> FALSE]
        ELSE IF is_duplicate(h, trimmed) THEN [h |-> h, ret |-> FALSE]
        ELSE LET free == HTC - used(h, 0)
                 e == make_space(h, free, len)
                 offset == e.data_head
                 at(j) == (j - 1 + HTC - offset) % HTC
                 size == IF e.entry_size < HME THEN e.entry_size + 1 ELSE e.entry_size
             IN  [h |-> [data          |-> [j \in 1..HTC |->
                                               IF at(j) < len THEN trimmed[at(j) + 1]
                                               ELSE e.data[j]],
                         entries       |-> [e.entries EXCEPT ![e.entry_head + 1] =
                                               Some([offset |-> offset, length |-> len])],
                         data_head     |-> (offset + len) % HTC,
                         entry_head    |-> (e.entry_head + 1) % HME,
                         entry_size    |-> size,
                         current_index |-> size - 1],
                  ret |-> TRUE]

\* get_prev_entry that stops at the oldest entry instead of wrapping
get_prev_entry_no_wrap(h, iml) ==
    IF h.entry_size = 0 THEN [h |-> h, ret |-> None]
    ELSE LET c == IF h.current_index = 0 THEN 0 ELSE h.current_index - 1
         IN  [h |-> [h EXCEPT !.current_index = c], ret |-> get(h, c, iml)]

\* History::get_prev_entry::<IML>
get_prev_entry(h, iml) ==
    IF h.entry_size = 0 THEN [h |-> h, ret |-> None]
    ELSE LET c == IF h.current_index = 0 THEN h.entry_size - 1 ELSE h.current_index - 1
         IN  [h |-> [h EXCEPT !.current_index = c], ret |-> get(h, c, iml)]

\* History::get_next_entry::<IML>
get_next_entry(h, iml) ==
    IF h.entry_size = 0 THEN [h |-> h, ret |-> None]
    ELSE LET c == (h.current_index + 1) % h.entry_size
         IN  [h |-> [h EXCEPT !.current_index = c], ret |-> get(h, c, iml)]

\* History::iter::<IML>, collected: HistoryIter::next yields get(index) until None
iter(h, iml) == [j \in 1..h.entry_size |-> get(h, j - 1, iml).v]

\* History::clear
clear(h) ==
    [h EXCEPT !.data_head = 0,
              !.entry_head = 0,
              !.entry_size = 0,
              !.entries = [j \in 1..HME |-> None]]

\* History::get_free_space
get_free_space(h) ==
    LET slot == h.entries[oldest_idx(h) + 1]
        oldest == IF slot.some THEN slot.v.offset ELSE h.data_head
        used_bytes == IF h.data_head >= oldest THEN h.data_head - oldest
                      ELSE HTC - (oldest - h.data_head)
    IN  <<HTC - used_bytes, HME - h.entry_size>>

\* the strings pushed: empty, blank, short ones, one with blanks around it,
\* and strings of HTC and HTC + 1 bytes
PushInputs ==
    { <<>>, <<SP, SP>>, <<"a">>, <<"b">>, <<"a", "b">>, <<SP, "b", SP>>,
      Repeat(<<"c">>, HTC), Repeat(<<"c">>, HTC + 1) }

\* the entries whose eviction the observer `evicted` records
Watched == { <<"a">> }

\* the live entries, oldest first, read from the ring
Live(h) == [j \in 1..h.entry_size |-> get(h, j - 1, HTC).v]

\* the watched entries that are live in h and no longer live in g
Gone(h, g) == Watched \cap (Range(Live(h)) \ Range(Live(g)))

\* the caller's `history.push(s)`
History_push ==
    /\ \E s \in PushInputs :
          LET r == push(history, s) IN
          /\ history' = r.h
          /\ op' = [name |-> "push", arg |-> s, ret |-> r.ret]
          /\ evicted' = evicted \cup Gone(history, r.h)
    /\ UNCHANGED <<dispatcher, autocomplete, buffer, execd>>

\* the caller's `history.get_prev_entry::<HTC>()`
History_get_prev_entry ==
    /\ LET r == get_prev_entry(history, HTC) IN
       /\ history' = r.h
       /\ op' = [name |-> "get_prev_entry", arg |-> <<>>, ret |-> r.ret]
    /\ UNCHANGED <<dispatcher, autocomplete, buffer, execd, evicted>>

\* the caller's `history.get_next_entry::<HTC>()`
History_get_next_entry ==
    /\ LET r == get_next_entry(history, HTC) IN
       /\ history' = r.h
       /\ op' = [name |-> "get_next_entry", arg |-> <<>>, ret |-> r.ret]
    /\ UNCHANGED <<dispatcher, autocomplete, buffer, execd, evicted>>

\* the caller's `history.get::<HTC>(index)`
History_get ==
    /\ \E index \in 0..HME :
          op' = [name |-> "get", arg |-> <<index>>, ret |-> get(history, index, HTC)]
    /\ UNCHANGED <<dispatcher, autocomplete, history, buffer, execd, evicted>>

\* the caller's `history.iter::<HTC>().collect()`
History_iter ==
    /\ op' = [name |-> "iter", arg |-> <<>>, ret |-> iter(history, HTC)]
    /\ UNCHANGED <<dispatcher, autocomplete, history, buffer, execd, evicted>>

\* the caller's `history.clear()`
History_clear ==
    /\ history' = clear(history)
    /\ op' = [name |-> "clear", arg |-> <<>>, ret |-> <<>>]
    /\ evicted' = evicted \cup Gone(history, clear(history))
    /\ UNCHANGED <<dispatcher, autocomplete, buffer, execd>>

\* the caller's `history.get_free_space()`
History_get_free_space ==
    /\ op' = [name |-> "get_free_space", arg |-> <<>>, ret |-> get_free_space(history)]
    /\ UNCHANGED <<dispatcher, autocomplete, history, buffer, execd, evicted>>

InitHistory == Generated(ShellMacrosInput) /\ Idle

NextHistory ==
    \/ History_push
    \/ History_get_prev_entry
    \/ History_get_next_entry
    \/ History_get
    \/ History_iter
    \/ History_clear
    \/ History_get_free_space

SpecHistory == InitHistory /\ [][NextHistory]_vars

(***************************************************************************)
(* Input parser (ushell_input/src/input/parser.rs)                         *)
(*                                                                         *)
(* parse_input reads keys until Enter and then finalizes the line.  One    *)
(* action per key; the Enter action is the finalization and the return.    *)
(* The cursor stays at the end of the buffer (no cursor keys are pressed)  *)
(* and no autocomplete candidate matches what is typed.  `exec` is the     *)
(* caller's callback: `execd` lists what the running call passed to it.    *)
(***************************************************************************)
\* InputParser::<_, _, IML, _, _>: the length of the input buffer
IML == 3

\* the key sequences typed before Enter
TypedLines ==
    { <<>>, <<"#", "q">>, <<"#", "0">>, <<"#", "1">>, <<"#", "+", "0">>, <<"#", "c">>,
      <<"#", "h">>, <<"#">>, <<"#", "#">>, <<"q">>, <<SP>>, <<SP, "q">>,
      <<SP, "#", "0">>, Repeat(<<"q">>, IML + 1) }

\* the characters on those keys
TypedChars == UNION {Range(l) : l \in TypedLines}

\* the step after which parse_input is reading keys: the key it has handled
Reading(key) == [name |-> "read_key", key |-> key]

\* the caller's loop runs parse_input again until it returns false
Running == ~(op.name = "parse_input" /\ op.ret = FALSE)

\* InputBuffer::insert with the cursor at the end
insert(buf, ch) == IF Len(buf) >= IML THEN buf ELSE Append(buf, ch)

\* InputBuffer::backspace with the cursor at the end
backspace(buf) == IF Len(buf) = 0 THEN buf ELSE SubSeq(buf, 1, Len(buf) - 1)

\* InputBuffer::overwrite
overwrite(input) == SubSeq(input, 1, min(Len(input), IML))

\* str::parse::<usize>: an optional '+' and at least one decimal digit
parse_usize(s) ==
    LET digits == IF s # <<>> /\ s[1] = "+" THEN Tail(s) ELSE s
    IN  IF digits = <<>> \/ \E j \in 1..Len(digits) : digits[j] \notin Range(Digits)
        THEN None
        ELSE Some(DecValue(digits, 0))

\* handle_hashtag that treats "q" like any other special command
handle_hashtag_no_quit(h, input) ==
    [retval |-> TRUE, cmd |-> None, h |-> h]

\* InputParser::handle_hashtag: the returned pair and the history afterwards
handle_hashtag(h, input) ==
    IF input = <<"q">> THEN [retval |-> FALSE, cmd |-> None, h |-> h]
    ELSE IF input = <<"#">> THEN [retval |-> TRUE, cmd |-> None, h |-> h]
    ELSE IF input = <<"#", "#">> THEN [retval |-> TRUE, cmd |-> None, h |-> h]
    ELSE IF input = <<"h">> THEN [retval |-> TRUE, cmd |-> None, h |-> h]
    ELSE IF input = <<"c">> THEN [retval |-> TRUE, cmd |-> None, h |-> clear(h)]
    ELSE LET index == parse_usize(input)
         IN  IF index.some /\ get(h, index.v, IML).some
             THEN [retval |-> TRUE, cmd |-> get(h, index.v, IML), h |-> h]
             ELSE [retval |-> TRUE, cmd |-> None, h |-> h]

\* Key::Char(c): handle_char
Key_Char ==
    /\ Running
    /\ \E c \in TypedChars :
          /\ \E l \in TypedLines : IsPrefix(Append(buffer, c), l)
          /\ buffer' = insert(buffer, c)
    /\ op' = Reading("Char")
    /\ execd' = <<>>
    /\ UNCHANGED <<dispatcher, autocomplete, history, evicted>>

\* Key::Backspace: handle_backspace
Key_Backspace ==
    /\ Running
    /\ buffer' = backspace(buffer)
    /\ op' = Reading("Backspace")
    /\ execd' = <<>>
    /\ UNCHANGED <<dispatcher, autocomplete, history, evicted>>

\* Key::ArrowUp
Key_ArrowUp ==
    /\ Running
    /\ LET r == get_next_entry(history, IML) IN
       /\ history' = r.h
       /\ buffer' = IF r.ret.some THEN overwrite(r.ret.v) ELSE buffer
    /\ op' = Reading("ArrowUp")
    /\ execd' = <<>>
    /\ UNCHANGED <<dispatcher, autocomplete, evicted>>

\* Key::ArrowDown
Key_ArrowDown ==
    /\ Running
    /\ LET r == get_prev_entry(history, IML) IN
       /\ history' = r.h
       /\ buffer' = IF r.ret.some THEN overwrite(r.ret.v) ELSE buffer
    /\ op' = Reading("ArrowDown")
    /\ execd' = <<>>
    /\ UNCHANGED <<dispatcher, autocomplete, evicted>>

\* Key::Enter: the loop ends, the line is finalized and parse_input returns
Key_Enter ==
    /\ Running
    /\ LET final_input == buffer IN
       IF final_input = <<>>
       THEN /\ op' = [name |-> "parse_input", arg |-> final_input, ret |-> TRUE]
            /\ execd' = <<>>
            /\ UNCHANGED <<history, buffer, evicted>>
       ELSE IF final_input[1] = "#"
       THEN LET r == handle_hashtag(history, Tail(final_input)) IN
            /\ op' = [name |-> "parse_input", arg |-> final_input, ret |-> r.retval]
            /\ execd' = IF r.cmd.some THEN <<r.cmd.v>> ELSE <<>>
            /\ history' = r.h
            /\ evicted' = evicted \cup Gone(history, r.h)
            /\ buffer' = <<>>
       ELSE LET r == push(history, final_input) IN
            /\ op' = [name |-> "parse_input", arg |-> final_input, ret |-> TRUE]
            /\ execd' = <<final_input>>
            /\ history' = r.h
            /\ evicted' = evicted \cup Gone(history, r.h)
            /\ buffer' = <<>>
    /\ UNCHANGED <<dispatcher, autocomplete>>

InitInput == Generated(ShellMacrosInput) /\ Idle

NextInput ==
    \/ Key_Char
    \/ Key_Backspace
    \/ Key_ArrowUp
    \/ Key_ArrowDown
    \/ Key_Enter

SpecInput == InitInput /\ [][NextInput]_vars

(***************************************************************************)
(* Autocomplete (shell_core/src/autocomplete/mod.rs)                       *)
(*                                                                         *)
(* Autocomplete<NC, FNL> as the input parser builds it: the candidates are *)
(* the command names and FNL is the generated MAX_FUNCTION_NAME_LEN, the   *)
(* length of the longest name plus one.                                    *)
(***************************************************************************)
\* the candidate lists: the commands of the parser's tests, one command, names
\* that are prefixes of each other, and no command
CandidateLists ==
    { << <<"h", "e", "l", "p">>, <<"e", "x", "i", "t">>, <<"l", "i", "s", "t">>,
         <<"t", "e", "s", "t">>, <<"h", "e", "l", "l", "o">> >>,
      << <<"h", "e", "l", "p">> >>,
      << <<"h", "e">>, <<"h", "e", "x">>, <<"h", "e", "l", "p">> >>,
      <<>> }

\* commandsgen: function_name_max_len, the value of MAX_FUNCTION_NAME_LEN
FNL(candidates) ==
    (CHOOSE m \in 0..8 :
        /\ \A j \in 1..Len(candidates) : Len(candidates[j]) <= m
        /\ m = 0 \/ \E j \in 1..Len(candidates) : Len(candidates[j]) = m) + 1

\* the inputs: every prefix of a candidate, alone and followed by a letter
\* that continues no candidate, cut to the FNL bytes of a String<FNL>
InputsFor(candidates) ==
    LET prefixes == {<<>>} \cup UNION {{SubSeq(c, 1, m) : m \in 0..Len(c)} :
                                           c \in Range(candidates)}
    IN  {s \in prefixes \cup {Append(q, "z") : q \in prefixes} : Len(s) <= FNL(candidates)}

\* heapless::String::push_str: all of `text` or nothing
push_str(s, text, cap) == IF Len(s) + Len(text) > cap THEN s ELSE s \o text

\* longest_common_prefix that does not look beyond the first string
longest_common_prefix_of_first(strings, fnl) == push_str(<<>>, strings[1], fnl)

RECURSIVE longest_common_prefix_from(_, _, _)
\* longest_common_prefix: the loops over strings[j..] that shorten `prefix`
longest_common_prefix_from(prefix, strings, j) ==
    IF j > Len(strings) THEN prefix
    ELSE IF IsPrefix(prefix, strings[j]) \/ prefix = <<>>
    THEN longest_common_prefix_from(prefix, strings, j + 1)
    ELSE longest_common_prefix_from(SubSeq(prefix, 1, Len(prefix) - 1), strings, j)

\* Autocomplete::longest_common_prefix
longest_common_prefix(strings, fnl) ==
    IF strings = <<>> THEN <<>>
    ELSE push_str(<<>>, longest_common_prefix_from(strings[1], strings, 2), fnl)

\* Autocomplete::update_input
update_input(a, new_input) ==
    LET fnl == FNL(a.candidates)
        filtered == SelectSeq(a.candidates, LAMBDA c : IsPrefix(new_input, c))
    IN  [a EXCEPT !.filtered = filtered,
                  !.tab_index = 0,
                  !.input = IF Len(filtered) = 1
                            THEN push_str(push_str(<<>>, filtered[1], fnl), <<SP>>, fnl)
                            ELSE IF Len(filtered) > 1
                            THEN longest_common_prefix(filtered, fnl)
                            ELSE new_input]

\* Autocomplete::cycle_forward
cycle_forward(a) ==
    IF a.filtered = <<>> THEN a
    ELSE LET fnl == FNL(a.candidates)
             tab_index == (a.tab_index + 1) % Len(a.filtered)
         IN  [a EXCEPT !.tab_index = tab_index,
                       !.input = push_str(push_str(<<>>, a.filtered[tab_index + 1], fnl),
                                          <<SP>>, fnl)]

\* InputParser::new: `Autocomplete::new(candidates)`
Autocomplete_new ==
    /\ op = NoOp
    /\ \E candidates \in CandidateLists :
          autocomplete' = new_autocomplete(candidates)
    /\ op' = [name |-> "new", arg |-> <<>>]
    /\ UNCHANGED <<dispatcher, history, buffer, execd, evicted>>

\* the caller's `autocomplete.update_input(x)`
Autocomplete_update_input ==
    /\ op # NoOp
    /\ \E x \in InputsFor(autocomplete.candidates) :
          /\ autocomplete' = update_input(autocomplete, x)
          /\ op' = [name |-> "update_input", arg |-> x]
    /\ UNCHANGED <<dispatcher, history, buffer, execd, evicted>>

\* the caller's `autocomplete.cycle_forward()`
Autocomplete_cycle_forward ==
    /\ op # NoOp
    /\ autocomplete' = cycle_forward(autocomplete)
    /\ op' = [name |-> "cycle_forward", arg |-> <<>>]
    /\ UNCHANGED <<dispatcher, history, buffer, execd, evicted>>

InitAutocomplete == Generated(ShellMacrosInput) /\ Idle

NextAutocomplete ==
    \/ Autocomplete_new
    \/ Autocomplete_update_input
    \/ Autocomplete_cycle_forward

SpecAutocomplete == InitAutocomplete /\ [][NextAutocomplete]_vars

(***************************************************************************)
(* Properties                                                              *)
(***************************************************************************)
\* DESCRIPTOR_HELP: the type each code is documented to stand for
DESCRIPTOR_HELP(v) ==
    IF v = "shell_macros"
    THEN [codes |-> <<"B", "W", "D", "Q", "X", "Z", "F",
                      "b", "w", "d", "q", "x", "z", "f",
                      "v", "c", "s", "t", "h">>,
          types |-> <<"u8", "u16", "u32", "u64", "u128", "usize", "f64",
                      "i8", "i16", "i32", "i64", "i128", "isize", "f32",
                      "void", "char", "str", "bool", "hexstr">>]
    ELSE [codes |-> <<"b", "w", "d", "q", "x", "z", "f",
                      "B", "W", "D", "Q", "X", "Z", "F",
                      "v", "c", "s", "t">>,
          types |-> <<"u8", "u16", "u32", "u64", "u128", "usize", "f32",
                      "i8", "i16", "i32", "i64", "i128", "isize", "f64",
                      "void", "char", "str", "bool">>]

HelpType(v, ch) ==
    LET h == DESCRIPTOR_HELP(v)
    IN  IF ch \in Range(h.codes) THEN h.types[IndexOf(h.codes, ch)] ELSE "none"

\* the separators of a line
Blank == {SP, TAB}

\* the length of the longest prefix of s made of characters of S / outside S
RECURSIVE RunLen(_, _)
RunLen(s, S) == IF s # <<>> /\ s[1] \in S THEN 1 + RunLen(Tail(s), S) ELSE 0

RECURSIVE RunLenNot(_, _)
RunLenNot(s, S) == IF s # <<>> /\ s[1] \notin S THEN 1 + RunLenNot(Tail(s), S) ELSE 0

Drop(s, m) == SubSeq(s, m + 1, Len(s))

\* The tokens of a line by the rules of tokenization: separators are runs of
\* blanks; a token that opens with a quote is what follows up to the next quote
\* or the end of the line, and what follows its closing quote up to the next
\* blank is dropped; any other token runs up to the next blank.
RECURSIVE RefTokens(_)
RefTokens(s) ==
    LET t == Drop(s, RunLen(s, Blank)) IN
    IF t = <<>> THEN <<>>
    ELSE IF t[1] = QUOTE
    THEN LET body == Tail(t)
             m == RunLenNot(body, {QUOTE})
             after == Drop(body, m + 1)
         IN  <<SubSeq(body, 1, m)>> \o RefTokens(Drop(after, RunLenNot(after, Blank)))
    ELSE LET m == RunLenNot(t, Blank)
         IN  <<SubSeq(t, 1, m)>> \o RefTokens(Drop(t, m))

\* the arity a descriptor requires: its number of characters, 0 for void
RequiredArity(d) == IF d = VOID THEN 0 ELSE Len(d)

\* the type codes of a descriptor
CodesOf(d) == IF d = VOID THEN <<>> ELSE d

Registered(nm) == \E e \in 1..Len(ENTRIES) : ENTRIES[e].name = nm

EntryOf(nm) == CHOOSE e \in 1..Len(ENTRIES) : ENTRIES[e].name = nm

\* argument token j of the tokens toks parses as the type of code j of descriptor d
ArgParses(d, toks, j) ==
    ParseArg(variant, HelpType(variant, CodesOf(d)[j]), toks[j + 1], MAX_HEXSTR_LEN).some

ArgValue(d, toks, j) ==
    ParseArg(variant, HelpType(variant, CodesOf(d)[j]), toks[j + 1], MAX_HEXSTR_LEN).v

ParseErrors == {"BadBool", "BadChar", "BadUnsigned", "BadSigned", "BadFloat", "BadHexStr"}

IsErr(kind) == result.tag = "Err" /\ result.kind = kind

DispatchDone == pc = "done" /\ entry = "dispatch"

\* C1: dispatch accepts a function of required arity A with exactly A argument
\* tokens: a line that names a registered function and carries N # A argument
\* tokens, however many, ends in WrongArity with expected = A and no call of the
\* function; a line with N = A never ends in WrongArity.
C1_ExactArity ==
    DispatchDone =>
        LET toks == RefTokens(line) IN
        \A e \in 1..Len(ENTRIES) :
            (toks # <<>> /\ toks[1] = ENTRIES[e].name) =>
                LET A == RequiredArity(ENTRIES[e].spec) IN
                IF Len(toks) - 1 # A
                THEN result = WrongArity(A) /\ calls = <<>>
                ELSE ~IsErr("WrongArity")

\* a line with more argument tokens than the buffer of dispatch holds was refused
C1_Witness ==
    /\ DispatchDone
    /\ ent # 0
    /\ ENTRIES[ent].arity = MAX_ARITY
    /\ Len(RefTokens(line)) - 1 >= MAX_ARITY + 2
    /\ result = WrongArity(MAX_ARITY)

\* C2: for a line that names a registered function of descriptor d and carries
\* exactly arity(d) argument tokens, dispatch returns Ok exactly when every token
\* i parses as the type code i of d denotes, and a per-type parse error otherwise.
C2_OkIffAllParse ==
    DispatchDone =>
        LET toks == RefTokens(line) IN
        \A e \in 1..Len(ENTRIES) :
            (/\ toks # <<>>
             /\ toks[1] = ENTRIES[e].name
             /\ Len(toks) - 1 = RequiredArity(ENTRIES[e].spec)) =>
                LET d == ENTRIES[e].spec
                    good == \A j \in 1..RequiredArity(d) : ArgParses(d, toks, j)
                IN  /\ result.tag = "Ok" <=> good
                    /\ ~good => result.tag = "Err" /\ result.kind \in ParseErrors

\* a call with two or more arguments, all parsed, returned Ok
C2_Witness ==
    /\ DispatchDone
    /\ result.tag = "Ok"
    /\ Len(calls) = 1
    /\ Len(calls[1].args) >= 2

\* C3: the target function is invoked exactly once when dispatch returns Ok, and
\* it is the function the line names; it is not invoked before the parser has
\* finished, nor when dispatch returns an error.
C3_InvokedOnceOnOk ==
    entry \in {"dispatch", "dispatch_with_buf"} =>
        /\ pc # "done" => calls = <<>>
        /\ pc = "done" =>
            IF result.tag = "Ok"
            THEN Len(calls) = 1 /\ calls[1].name = RefTokens(line)[1]
            ELSE calls = <<>>

\* a parse failure on a later argument, after an earlier one was parsed
C3_Witness ==
    /\ DispatchDone
    /\ result.tag = "Err"
    /\ result.kind \in ParseErrors
    /\ pos >= 2
    /\ k >= 1
    /\ calls = <<>>

\* The error of dispatch is that of the first failing stage in the order
\* tokenize, lookup, arity check, parse: Empty for a line without tokens, else
\* UnknownFunction for an unregistered name (whatever follows it), else
\* WrongArity for a wrong number of arguments (parseable or not), else the
\* error of the leftmost argument that fails to parse.
C4_ErrorOfFirstStage ==
    DispatchDone =>
        LET toks == RefTokens(line) IN
        IF toks = <<>> THEN result = Err("Empty")
        ELSE IF ~Registered(toks[1]) THEN result = Err("UnknownFunction")
        ELSE LET d == ENTRIES[EntryOf(toks[1])].spec
                 A == RequiredArity(d)
             IN  IF Len(toks) - 1 # A THEN result = WrongArity(A)
                 ELSE LET bad == {j \in 1..A : ~ArgParses(d, toks, j)} IN
                      bad # {} =>
                        LET first == CHOOSE j \in bad : \A x \in bad : j <= x
                        IN  result = Err(ParseError(HelpType(variant, d[first])))

\* the stage that may follow each stage of a call of dispatch
StageOrder ==
    entry' = "dispatch" =>
        <<pc, pc'>> \in {<<"idle", "tokenize">>, <<"tokenize", "resolve">>, <<"tokenize", "done">>,
                         <<"resolve", "arity">>, <<"resolve", "done">>,
                         <<"arity", "parse">>, <<"arity", "done">>,
                         <<"parse", "parse">>, <<"parse", "invoke">>, <<"parse", "done">>,
                         <<"invoke", "done">>}

\* C4: dispatch runs tokenize, resolve, arity check, parse, invoke in this order,
\* each at most once but for the parser's statements, and its error is that of
\* the first failing stage: Empty before UnknownFunction before WrongArity before
\* every parse error, and among parse errors that of the leftmost failing argument.
C4_FirstFailingStage == []C4_ErrorOfFirstStage /\ [][StageOrder]_vars

\* two arguments of different types fail to parse; the error is the leftmost's
C4_Witness ==
    /\ DispatchDone
    /\ result.tag = "Err"
    /\ result.kind \in ParseErrors
    /\ LET toks == RefTokens(line)
           d == ENTRIES[ent].spec
       IN  \E j \in 1..Len(d) :
              /\ ~ArgParses(d, toks, j)
              /\ ParseError(HelpType(variant, d[j])) # result.kind

\* C5: lookup is an exact, case-sensitive match of the whole first token: the
\* entry dispatch resolves bears the first token as its name, and a first token
\* that is no registered name (a prefix, an extension or a case variant of one
\* included) ends in UnknownFunction.
C5_ExactNameLookup ==
    (entry = "dispatch" /\ pc \in {"arity", "parse", "invoke", "done"}) =>
        LET toks == RefTokens(line) IN
        toks # <<>> =>
            IF Registered(toks[1])
            THEN ent # 0 /\ ENTRIES[ent].name = toks[1] /\ ~IsErr("UnknownFunction")
            ELSE ent = 0 /\ pc = "done" /\ result = Err("UnknownFunction")

\* a proper prefix of a registered name was refused
C5_Witness ==
    /\ DispatchDone
    /\ result = Err("UnknownFunction")
    /\ LET toks == RefTokens(line) IN
       \E e \in 1..Len(ENTRIES) :
          IsPrefix(toks[1], ENTRIES[e].name) /\ toks[1] # ENTRIES[e].name

\* the value x < 65536 of an unsigned type
Unsigned(ty, x) ==
    [neg |-> FALSE,
     mag |-> [j \in 1..ByteWidth(ty) |-> IF j = 1 THEN x % 256
                                         ELSE IF j = 2 THEN (x \div 256) % 256 ELSE 0]]

L_write_255 == <<"w", "r", "i", "t", "e", SP, QUOTE, "l", "o", "g", ".", "t", "x", "t", QUOTE, SP, "1", "0", "0", SP, "2", "5", "5">>
L_write_256 == <<"w", "r", "i", "t", "e", SP, QUOTE, "l", "o", "g", ".", "t", "x", "t", QUOTE, SP, "1", "0", "0", SP, "2", "5", "6">>
S_log_txt == <<"l", "o", "g", ".", "t", "x", "t">>

\* C6: with write registered under "sqb", the line write "log.txt" 100 255 returns
\* Ok after invoking write("log.txt", 100u64, 255u8), and the same line with 256
\* for 255 returns BadUnsigned; in general the function receives, in descriptor
\* order, the values its tokens parse to.
C6_PositionalValues ==
    DispatchDone =>
        /\ (variant = "cmd_dispatcher" /\ line = L_write_255) =>
              /\ result = Ok(<<>>)
              /\ calls = << [name |-> S_write,
                             args |-> <<S_log_txt, Unsigned("u64", 100), Unsigned("u8", 255)>>] >>
        /\ (variant = "cmd_dispatcher" /\ line = L_write_256) =>
              result = Err("BadUnsigned") /\ calls = <<>>
        /\ result.tag = "Ok" =>
              LET toks == RefTokens(line)
                  d == ENTRIES[EntryOf(toks[1])].spec
              IN  calls[1].args = [j \in 1..RequiredArity(d) |-> ArgValue(d, toks, j)]

\* write was invoked with the three values of the line
C6_Witness ==
    /\ DispatchDone
    /\ variant = "cmd_dispatcher"
    /\ line = L_write_255
    /\ result.tag = "Ok"
    /\ Len(calls) = 1

\* the number of codes of descriptor d that denote type ty
Occurrences(d, ty) == Cardinality({j \in 1..Len(d) : HelpType(variant, d[j]) = ty})

\* C7: every capacity MAX_<type> is the maximum over the unique descriptors of
\* the occurrences of the type in one descriptor, every array of CallCtx has that
\* capacity, and every index a parser statement writes at is below it: no
\* statement panics.
C7_WriteIndexInBounds ==
    /\ \A ty \in Types :
          /\ \A p \in 1..Len(PARAM_SPECS) : Occurrences(PARAM_SPECS[p], ty) <= MAX[ty]
          /\ MAX[ty] = 0 \/ \E p \in 1..Len(PARAM_SPECS) : Occurrences(PARAM_SPECS[p], ty) = MAX[ty]
    /\ result # Panic
    /\ (pc = "parse" /\ pos < Len(ParserSpec)) =>
          LET ty == HelpType(variant, ParserSpec[pos + 1]) IN
          ty \in Types => idx[ty] < MAX[ty] /\ Len(ctx[ty]) = MAX[ty]

\* a statement is about to write the last slot of an array, after an earlier
\* write to the array, for a type two descriptors use
C7_Witness ==
    /\ pc = "parse"
    /\ pos < Len(ParserSpec)
    /\ LET ty == HelpType(variant, ParserSpec[pos + 1]) IN
       /\ ty \in Types
       /\ idx[ty] >= 1
       /\ idx[ty] = MAX[ty] - 1
       /\ Cardinality({p \in 1..Len(PARAM_SPECS) : Occurrences(PARAM_SPECS[p], ty) > 0}) >= 2

\* C8: the arity of every registry entry is the number of argument tokens its
\* parser consumes, and is at most MAX_ARITY, whatever characters the
\* descriptor holds.
C8_ArityIsTokensConsumed ==
    /\ \A e \in 1..Len(ENTRIES) : ENTRIES[e].arity <= MAX_ARITY
    /\ pc = "invoke" => k = ENTRIES[ent].arity

\* C9: with a buffer of at least one slot the result is Empty exactly when the
\* line holds nothing but spaces and tabs (the empty line included), for
\* tokenize and so for dispatch; the line "" gives tokenize a count of 1 with
\* one token of length zero.
C9_EmptyIffBlank ==
    (pc = "done" /\ Len(out) >= 1) =>
        /\ result = Err("Empty") <=> \A j \in 1..Len(line) : line[j] \in Blank
        /\ (entry = "tokenize" /\ line = <<QUOTE, QUOTE>>) =>
              result = Ok(1) /\ n = 1 /\ out[1] = <<>>

\* tokenize returned one empty token for the line ""
C9_Witness ==
    /\ pc = "done"
    /\ entry = "tokenize"
    /\ line = <<QUOTE, QUOTE>>
    /\ result = Ok(1)
    /\ out[1] = <<>>

RECURSIVE Flatten(_)
Flatten(ss) == IF ss = <<>> THEN <<>> ELSE ss[1] \o Flatten(Tail(ss))

NotBlank(c) == c \notin Blank

\* C10: with room for every token, tokenize stores the tokens of the line in
\* left-to-right order: a token that opens with a quote is the characters up to
\* the next quote or the end of the line, any other token runs to the next blank;
\* on a line without quotes the tokens are the maximal runs of non-blanks; and
\* cmd "a b" c gives cmd, a b, c.
C10_TokensOfLine ==
    (pc = "done" /\ entry = "tokenize") =>
        LET ref == RefTokens(line)
            toks == SubSeq(out, 1, n)
        IN  /\ Len(ref) <= Len(out) =>
                  /\ toks = ref
                  /\ n > 0 => result = Ok(n)
            /\ (Len(ref) <= Len(out) /\ QUOTE \notin Range(line)) =>
                  /\ Flatten(toks) = SelectSeq(line, NotBlank)
                  /\ \A j \in 1..n : toks[j] # <<>> /\ Range(toks[j]) \cap Blank = {}
                  /\ n = Cardinality({j \in 1..Len(line) :
                            line[j] \notin Blank /\ (j = 1 \/ line[j - 1] \in Blank)})
            /\ (line = L_cmd_quoted /\ Len(out) >= 3) =>
                  toks = << <<"c", "m", "d">>, <<"a", SP, "b">>, <<"c">> >>

\* tokenize split cmd "a b" c into three tokens
C10_Witness ==
    /\ pc = "done"
    /\ entry = "tokenize"
    /\ line = L_cmd_quoted
    /\ n = 3
    /\ out[2] = <<"a", SP, "b">>

S_first == <<"f", "i", "r", "s", "t">>
S_second == <<"s", "e", "c", "o", "n", "d">>

TokenizeDone == pc = "done" /\ entry = "tokenize"

\* C11: for the line "first""second", two quoted tokens with no blank between
\* them, tokenize with room for two tokens returns 2 and stores first and second.
C11_AdjacentQuoted ==
    (TokenizeDone /\ line = L_adjacent /\ Len(out) >= 2) =>
        result = Ok(2) /\ n = 2 /\ out[1] = S_first /\ out[2] = S_second

C13_TruncatesToBuffer ==
    TokenizeDone =>
        LET ref == RefTokens(line) IN
        /\ n <= Len(out)
        /\ \A j \in (n + 1)..Len(out) : out[j] = <<>>
        /\ (Len(ref) > Len(out) /\ Len(out) >= 1) =>
              /\ result = Ok(Len(out))
              /\ n = Len(out)
              /\ out = SubSeq(ref, 1, Len(out))

\* a line of three tokens met a buffer of fewer slots
C13_Witness ==
    /\ TokenizeDone
    /\ Len(RefTokens(line)) >= 3
    /\ Len(out) \in {1, 2}
    /\ result = Ok(Len(out))

\* C14: dispatch_with_buf with a buffer of at least one slot refuses every line
\* that carries more argument tokens than the arity of the function it names:
\* the result is WrongArity and the function is not invoked, also when the buffer
\* has only arity + 1 slots.
C14_ExactArityAnyBuffer ==
    (pc = "done" /\ entry = "dispatch_with_buf" /\ Len(out) >= 1) =>
        LET toks == RefTokens(line) IN
        \A e \in 1..Len(ENTRIES) :
            (/\ toks # <<>>
             /\ toks[1] = ENTRIES[e].name
             /\ Len(toks) - 1 > RequiredArity(ENTRIES[e].spec)) =>
                result = WrongArity(RequiredArity(ENTRIES[e].spec)) /\ calls = <<>>

\* the largest magnitude a value of type ty can have, non-negative or negative,
\* as little-endian bytes
MaxMagnitude(ty, neg) ==
    LET w == ByteWidth(ty) IN
    IF ty \in UnsignedTypes
    THEN [j \in 1..w |-> IF neg THEN 0 ELSE 255]
    ELSE [j \in 1..w |-> IF neg THEN (IF j = w THEN 128 ELSE 0)
                          ELSE (IF j = w THEN 127 ELSE 255)]

\* magnitude a (bytes without a leading zero byte) is at most magnitude b
MagAtMost(a, b) ==
    /\ Len(a) <= Len(b)
    /\ LET p == [j \in 1..Len(b) |-> IF j <= Len(a) THEN a[j] ELSE 0] IN
       \/ p = b
       \/ \E j \in 1..Len(b) :
             p[j] < b[j] /\ \A m \in (j + 1)..Len(b) : p[m] = b[m]

\* the value the literal denotes lies in the range of ty
InRange(ty, lit) == MagAtMost(lit.mag, MaxMagnitude(ty, lit.neg))

\* the value of type ty the literal denotes
ValueOf(ty, lit) ==
    [neg |-> lit.neg,
     mag |-> [j \in 1..ByteWidth(ty) |-> IF j <= Len(lit.mag) THEN lit.mag[j] ELSE 0]]

BadInt(ty) == IF ty \in UnsignedTypes THEN "BadUnsigned" ELSE "BadSigned"

\* the line is one of the single-integer functions with one argument token
IntCall ==
    /\ DispatchDone
    /\ macro_input = TestInput
    /\ Len(RefTokens(line)) = 2
    /\ RefTokens(line)[1] \in IntFunctions

IntType == HelpType(variant, ENTRIES[EntryOf(RefTokens(line)[1])].spec[1])

IntToken == RefTokens(line)[2]

Line(nm, tx) == nm \o <<SP>> \o Written(tx)

\* C15: an integer argument written in decimal, or in hexadecimal, octal or
\* binary after 0x, 0o, 0b, is accepted exactly when the value it denotes is in
\* the range of the parameter's type, and the function then receives that value;
\* a value out of range and a token that is no literal give BadUnsigned for an
\* unsigned and BadSigned for a signed parameter, and the function is not invoked.
C15_IntegerLiterals ==
    IntCall =>
        /\ \A lit \in IntLiterals :
              IntToken = lit.text =>
                 IF InRange(IntType, lit)
                 THEN /\ result = Ok(<<>>)
                      /\ calls = << [name |-> RefTokens(line)[1],
                                     args |-> <<ValueOf(IntType, lit)>>] >>
                 ELSE result = Err(BadInt(IntType)) /\ calls = <<>>
        /\ IntToken \in MalformedInts =>
              result = Err(BadInt(IntType)) /\ calls = <<>>
        /\ line \in {Line(S_single_u8, tx) :
                        tx \in {<<"2", "5", "5">>, <<"0", "x", "F", "F">>,
                                <<"0", "o", "3", "7", "7">>,
                                <<"0", "b", "1", "1", "1", "1", "1", "1", "1", "1">>}} =>
              calls = << [name |-> S_single_u8, args |-> <<Unsigned("u8", 255)>>] >>
        /\ line \in {Line(S_single_u8, <<"2", "5", "6">>), Line(S_single_u8, <<"-", "1">>)} =>
              result = Err("BadUnsigned")
        /\ line \in {Line(S_single_i8, <<"1", "2", "8">>),
                     Line(S_single_i8, <<"-", "1", "2", "9">>),
                     Line(S_single_i32, <<"0", "x", "F", "F", "F", "F", "F", "F", "F", "F">>)} =>
              result = Err("BadSigned")

\* 0xFFFFFFFF was refused for an i32 parameter
C15_Witness ==
    /\ IntCall
    /\ line = Line(S_single_i32, <<"0", "x", "F", "F", "F", "F", "F", "F", "F", "F">>)
    /\ result = Err("BadSigned")
    /\ calls = <<>>

\* C16: the upper-case prefixes 0X, 0O and 0B select the radix like 0x, 0o and
\* 0b: single_u32 (descriptor D) called with 0X100, 0O777 or 0B1010 returns Ok
\* after receiving 256, 511 or 10.
C16_UpperCasePrefixes ==
    (IntCall /\ RefTokens(line)[1] = S_single_u32 /\ IntToken \in UpperPrefixInts) =>
        /\ result = Ok(<<>>)
        /\ calls = << [name |-> S_single_u32,
                       args |-> << Unsigned("u32",
                                     CASE IntToken = <<"0", "X", "1", "0", "0">> -> 256
                                       [] IntToken = <<"0", "O", "7", "7", "7">> -> 511
                                       [] IntToken = <<"0", "B", "1", "0", "1", "0">> -> 10) >>] >>

\* C17: a signed integer parameter accepts a minus sign before a radix prefix:
\* single_i32 called with -0x10 returns Ok after receiving -16, and the line
\* multi_args 0xFF -0x10 1e5 "quoted" 1 (descriptor DdFst) returns Ok with
\* multi_args invoked once.
C17_MinusBeforePrefix ==
    DispatchDone =>
        /\ line = Line(S_single_i32, <<"-", "0", "x", "1", "0">>) =>
              /\ result = Ok(<<>>)
              /\ calls = << [name |-> S_single_i32,
                             args |-> << [neg |-> TRUE, mag |-> <<16, 0, 0, 0>>] >>] >>
        /\ line = L_multi_prefix =>
              result = Ok(<<>>) /\ Len(calls) = 1 /\ calls[1].name = S_multi_args

\* the spellings of the two truth values
TrueTokens == {<<"t", "r", "u", "e">>, <<"T", "r", "u", "e">>, <<"T", "R", "U", "E">>, <<"1">>}
FalseTokens ==
    {<<"f", "a", "l", "s", "e">>, <<"F", "a", "l", "s", "e">>, <<"F", "A", "L", "S", "E">>,
     <<"0">>}

\* the line is single_bool (descriptor t) with one argument token
BoolCall ==
    /\ DispatchDone
    /\ macro_input = TestInput
    /\ Len(RefTokens(line)) = 2
    /\ RefTokens(line)[1] = S_single_bool

\* C18: a bool argument is true exactly for true, True, TRUE and 1 and false
\* exactly for false, False, FALSE and 0; the function then receives that value
\* and dispatch returns Ok; every other token (yes, 2, tRue among them) gives
\* BadBool and the function is not invoked.
C18_BoolTokens ==
    BoolCall =>
        LET tok == RefTokens(line)[2] IN
        /\ tok \in TrueTokens <=>
              result = Ok(<<>>) /\ calls = << [name |-> S_single_bool, args |-> <<TRUE>>] >>
        /\ tok \in FalseTokens <=>
              result = Ok(<<>>) /\ calls = << [name |-> S_single_bool, args |-> <<FALSE>>] >>
        /\ tok \notin TrueTokens \cup FalseTokens <=>
              result = Err("BadBool") /\ calls = <<>>
        /\ tok \in {<<"y", "e", "s">>, <<"2">>, <<"t", "R", "u", "e">>} =>
              result = Err("BadBool")

\* tRue was refused with BadBool
C18_Witness ==
    /\ BoolCall
    /\ RefTokens(line)[2] = <<"t", "R", "u", "e">>
    /\ result = Err("BadBool")
    /\ calls = <<>>

\* the line is single_char (descriptor c) with one argument token
CharCall ==
    /\ DispatchDone
    /\ macro_input = TestInput
    /\ Len(RefTokens(line)) = 2
    /\ RefTokens(line)[1] = S_single_char

\* C19: a char argument is accepted exactly when its token is one character
\* long, and the function then receives that character; the empty token of ""
\* and every token of two or more characters give BadChar and the function is
\* not invoked.
C19_ExactlyOneChar ==
    CharCall =>
        LET tok == RefTokens(line)[2] IN
        /\ Len(tok) = 1 <=>
              result = Ok(<<>>) /\ calls = << [name |-> S_single_char, args |-> <<tok[1]>>] >>
        /\ Len(tok) # 1 <=> result = Err("BadChar") /\ calls = <<>>
        /\ line \in {Line(S_single_char, <<>>), Line(S_single_char, <<"a", "b">>)} =>
              result = Err("BadChar")

\* the empty token of single_char "" was refused with BadChar
C19_Witness ==
    /\ CharCall
    /\ line = S_single_char \o <<SP, QUOTE, QUOTE>>
    /\ RefTokens(line)[2] = <<>>
    /\ result = Err("BadChar")
    /\ calls = <<>>

HexDigitsLower == <<"0", "1", "2", "3", "4", "5", "6", "7", "8", "9", "a", "b", "c", "d", "e", "f">>
HexDigitsUpper == <<"0", "1", "2", "3", "4", "5", "6", "7", "8", "9", "A", "B", "C", "D", "E", "F">>

IsHexDigit(c) == c \in Range(HexDigitsLower) \cup Range(HexDigitsUpper)

HexValue(c) == CHOOSE d \in 0..15 : c \in {HexDigitsLower[d + 1], HexDigitsUpper[d + 1]}

\* the token is a non-empty run of two-digit hexadecimal pairs
IsHexPairs(tok) ==
    /\ tok # <<>>
    /\ Len(tok) % 2 = 0
    /\ \A j \in 1..Len(tok) : IsHexDigit(tok[j])

\* the bytes the pairs of the token denote, in order
HexBytes(tok) ==
    [j \in 1..(Len(tok) \div 2) |-> 16 * HexValue(tok[2 * j - 1]) + HexValue(tok[2 * j])]

\* the line is single_hexstr (descriptor h) with one argument token
HexCall ==
    /\ DispatchDone
    /\ macro_input = TestInput
    /\ Len(RefTokens(line)) = 2
    /\ RefTokens(line)[1] = S_single_hexstr

\* C20: a hexstr argument is accepted exactly when its token is non-empty, of
\* even length, made of hexadecimal digits only (either case) and not longer than
\* MAX_HEXSTR_LEN pairs; the function then receives the bytes of the pairs in
\* order (AABBCC gives AA, BB, CC), also for exactly MAX_HEXSTR_LEN pairs; every
\* other token (one pair too long, odd length, a non-hex character, empty) gives
\* BadHexStr and the function is not invoked.
C20_HexPairsOnly ==
    HexCall =>
        LET tok == RefTokens(line)[2]
            good == IsHexPairs(tok) /\ Len(tok) \div 2 <= MAX_HEXSTR_LEN
        IN  /\ good =>
                 /\ result = Ok(<<>>)
                 /\ calls = << [name |-> S_single_hexstr, args |-> <<HexBytes(tok)>>] >>
            /\ ~good => result = Err("BadHexStr") /\ calls = <<>>
            /\ tok = <<"A", "A", "B", "B", "C", "C">> =>
                 calls = << [name |-> S_single_hexstr, args |-> << <<170, 187, 204>> >>] >>

DescriptorOf(inp, nm) ==
    inp.pairs[CHOOSE g \in 1..Len(inp.pairs) : nm \in Range(inp.pairs[g].funcs)].desc

\* the sequence lists every element of the set once
ListsOnce(seq, S) == Range(seq) = S /\ Len(seq) = Cardinality(S)

\* C22: ENTRIES, get_function_names() and get_commands() hold one element for
\* each registered function, in ascending order of the names, and pair each name
\* with the descriptor it was registered under; the descriptors of PARAM_SPECS
\* are pairwise distinct and spec_idx of an entry is the position of its
\* descriptor in PARAM_SPECS, so functions with equal descriptors have equal
\* spec_idx.
C22_SortedRegistry ==
    LET regs == RegisteredNames(macro_input)
        names == fn_names(macro_input.pairs)
        cmds == name_spec_pairs(macro_input.pairs)
    IN  pc = "idle" =>
        /\ ListsOnce([e \in 1..Len(ENTRIES) |-> ENTRIES[e].name], regs)
        /\ ListsOnce(names, regs)
        /\ ListsOnce([e \in 1..Len(cmds) |-> cmds[e][1]], regs)
        /\ \A e \in 1..Len(ENTRIES) :
              /\ names[e] = ENTRIES[e].name
              /\ cmds[e] = <<ENTRIES[e].name, DescriptorOf(macro_input, ENTRIES[e].name)>>
              /\ ENTRIES[e].spec_idx \in 0..(Len(PARAM_SPECS) - 1)
              /\ PARAM_SPECS[ENTRIES[e].spec_idx + 1] =
                    DescriptorOf(macro_input, ENTRIES[e].name)
              /\ \A f \in 1..(e - 1) : StrLess(ENTRIES[f].name, ENTRIES[e].name)
        /\ \A a, b \in 1..Len(PARAM_SPECS) : PARAM_SPECS[a] = PARAM_SPECS[b] => a = b
        /\ \A e, f \in 1..Len(ENTRIES) :
              DescriptorOf(macro_input, ENTRIES[e].name) =
                 DescriptorOf(macro_input, ENTRIES[f].name)
              => ENTRIES[e].spec_idx = ENTRIES[f].spec_idx

\* a registry whose input order is not the name order and in which two
\* functions share a descriptor
C22_Witness ==
    /\ pc = "idle"
    /\ \E g \in 2..Len(macro_input.pairs) :
          StrLess(macro_input.pairs[g].funcs[1], macro_input.pairs[g - 1].funcs[1])
    /\ \E e, f \in 1..Len(ENTRIES) : e # f /\ ENTRIES[e].spec_idx = ENTRIES[f].spec_idx
    /\ Len(PARAM_SPECS) < Len(ENTRIES)

\* C23: in the dispatcher generated by shell_macros the descriptor "DdFsb"
\* declares the parameter types u32, i32, f64, &str, bool in this order: the
\* function registered under it takes parameters of these types, and a line whose
\* fifth argument is true is dispatched with Ok and passes TRUE.
C23_DocumentedExample ==
    (DispatchDone /\ macro_input = DocInput /\ line = L_example_true) =>
        /\ arg_types(variant, ENTRIES[ent].spec) = <<"u32", "i32", "f64", "str", "bool">>
        /\ result = Ok(<<>>)
        /\ Len(calls) = 1
        /\ calls[1].name = S_example
        /\ calls[1].args[5] = TRUE

Reverse(s) == [j \in 1..Len(s) |-> s[Len(s) + 1 - j]]

\* the input without its leading and trailing white space
Stripped(s) ==
    LET a == RunLen(s, WhiteSpace)
        b == RunLen(Reverse(s), WhiteSpace)
    IN  IF a = Len(s) THEN <<>> ELSE SubSeq(s, a + 1, Len(s) - b)

\* sub occurs in s as a run of consecutive characters
Contains(s, sub) == \E a \in 0..(Len(s) - Len(sub)) : SubSeq(s, a + 1, a + Len(sub)) = sub

\* the registered shortcuts: prefix followed by key, and the function mapped to it
ShortcutTable ==
    UNION {{[key |-> ShortcutsInput[g].prefix \o ShortcutsInput[g].keys[j].key,
             func |-> ShortcutsInput[g].keys[j].func] : j \in 1..Len(ShortcutsInput[g].keys)} :
           g \in 1..Len(ShortcutsInput)}

ShortcutDone == pc = "done" /\ entry = "shortcuts::dispatch"

\* C24: shortcut dispatch takes the first two characters of the trimmed input as
\* the key and the trimmed remainder as the parameter; for a registered key it
\* returns Ok after calling the mapped function once with the parameter; for any
\* other key, and for a trimmed input of fewer than two characters, it calls no
\* function and returns an Err whose message contains "Unknown shortcut" and the
\* key.
C24_ShortcutDispatch ==
    ShortcutDone =>
        LET t == Stripped(line)
            ky == IF Len(t) >= 2 THEN SubSeq(t, 1, 2) ELSE t
            par == IF Len(t) >= 2 THEN Stripped(SubSeq(t, 3, Len(t))) ELSE <<>>
            regs == {e \in ShortcutTable : e.key = ky}
        IN  /\ regs # {} =>
                 /\ result = Ok(<<>>)
                 /\ \E e \in regs : calls = << [name |-> e.func, args |-> <<par>>] >>
            /\ (regs = {} \/ Len(t) < 2) =>
                 /\ calls = <<>>
                 /\ result.tag = "Err"
                 /\ Contains(result.msg, UnknownShortcut)
                 /\ Contains(result.msg, ky)

\* ?+ followed by blanks, param and a blank called question_plus with param
C24_Witness ==
    /\ ShortcutDone
    /\ line = <<SP, SP, "?", "+", SP, SP, SP, "p", "a", "r", "a", "m", SP>>
    /\ result = Ok(<<>>)
    /\ calls = << [name |-> "question_plus", args |-> << <<"p", "a", "r", "a", "m">> >>] >>

RECURSIVE TotalLen(_)
\* the bytes of a list of entries
TotalLen(es) == IF es = <<>> THEN 0 ELSE Len(Head(es)) + TotalLen(Tail(es))

\* an accepted or a refused push is the step being taken
PushStep(accepted) == op'.name = "push" /\ op'.ret = accepted

\* the number of oldest entries an accepted push of `text` has to evict: the
\* fewest that leave a free slot and HTC bytes for the live entries and `text`
Evictions(es, text) ==
    CHOOSE d \in 0..Len(es) :
        /\ Len(es) - d < HME /\ TotalLen(Drop(es, d)) + Len(text) <= HTC
        /\ \A c \in 0..(d - 1) :
              ~(Len(es) - c < HME /\ TotalLen(Drop(es, c)) + Len(text) <= HTC)

\* what an accepted push of `text` makes of the entries `live`; with `exactly`,
\* a push onto HME entries evicts the oldest one and no other
PushEvicts(live, after, text, exactly) ==
    IF exactly
    THEN /\ \E d \in 0..Len(live) : after = Drop(live, d) \o <<text>>
         /\ Len(live) = HME => after = Tail(live) \o <<text>>
    ELSE after = Drop(live, Evictions(live, text)) \o <<text>>

\* a step from the entries `live` to the entries `after`: only an accepted push
\* and clear change them, they are never more than HME, and get(i) and iter()
\* read them from the oldest (0) to the newest
EntriesStep(live, after, exactly) ==
    /\ PushStep(TRUE) => PushEvicts(live, after, Stripped(op'.arg), exactly)
    /\ PushStep(FALSE) => after = live
    /\ Len(after) <= HME
    /\ op'.name \in {"get", "iter", "get_prev_entry", "get_next_entry", "get_free_space"}
          => after = live
    /\ op'.name = "iter" => op'.ret = live
    /\ op'.name = "get" =>
          op'.ret = (IF op'.arg[1] < Len(live) THEN Some(live[op'.arg[1] + 1]) ELSE None)

\* C25 as stated: the live entries are the most recently accepted ones in
\* push order, the oldest evicted first, never more than HME of them; a push
\* onto a history holding HME entries evicts exactly the oldest one; get(i)
\* and iter() return them from the oldest to the newest
C25_EvictsExactlyOldest == [][EntriesStep(Live(history), Live(history'), TRUE)]_vars

\* C25: the live entries are the most recently accepted ones in push order,
\* never more than HME of them; an accepted push evicts the oldest entries,
\* as few as leave a free slot and enough bytes for the new entry (one when
\* the history holds HME entries and the bytes suffice, more when they do
\* not); get(i) and iter() return the entries from the oldest to the newest
C25_EvictsOldestFirst == [][EntriesStep(Live(history), Live(history'), FALSE)]_vars

\* a push onto a history of HME entries was accepted, and iter() then returned
\* the HME live entries with the pushed one as the newest
C25_Witness ==
    /\ op.name = "iter"
    /\ Len(op.ret) = HME
    /\ op.ret[HME] = <<"a", "b">>
    /\ op.ret[HME - 1] = <<"b">>
    /\ <<"a">> \in evicted

\* C26: push returns false and leaves the history completely unchanged
\* (entries, order, navigation position) when the trimmed string is longer
\* than HTC bytes or equals a live entry; a string of exactly HTC bytes is
\* accepted, and so is a string equal to an entry that was evicted before
C26_RefusedPushChangesNothing ==
    [][op'.name = "push" =>
          LET text == Stripped(op'.arg)
              live == Range(Live(history))
          IN  /\ (Len(text) > HTC \/ text \in live) =>
                    /\ op'.ret = FALSE
                    /\ history' = history
              /\ (Len(text) = HTC /\ text \notin live) =>
                    /\ op'.ret = TRUE
                    /\ Live(history')[Len(Live(history'))] = text
              /\ (text \in evicted /\ text \notin live) =>
                    /\ op'.ret = TRUE
                    /\ Live(history')[Len(Live(history'))] = text]_vars

\* an entry that had been evicted is live again, and a push of a string that
\* equals a live entry after trimming has just been refused
C26_Witness ==
    /\ op.name = "push"
    /\ op.arg = <<SP, "b", SP>>
    /\ op.ret = FALSE
    /\ <<"a">> \in evicted
    /\ Live(history) = << <<"b">>, <<"a">> >>

\* what a navigation step to position `c` returns and leaves behind
MovedTo(c) ==
    /\ history'.current_index = c
    /\ op'.ret = Some(Live(history)[c + 1])
    /\ Live(history') = Live(history)

\* C27: navigation is cyclic: get_prev_entry moves towards the oldest entry
\* and wraps from the oldest to the newest, get_next_entry moves towards the
\* newest and wraps from the newest to the oldest; each returns the entry at
\* the new position, and None on an empty history; an accepted push leaves
\* the position on the newest entry, so the first get_prev_entry after it
\* returns the second-newest entry
C27_CyclicNavigation ==
    [][LET size == history.entry_size
           c == history.current_index
       IN  /\ op'.name = "get_prev_entry" =>
                 IF size = 0 THEN op'.ret = None /\ history' = history
                 ELSE MovedTo(IF c = 0 THEN size - 1 ELSE c - 1)
           /\ op'.name = "get_next_entry" =>
                 IF size = 0 THEN op'.ret = None /\ history' = history
                 ELSE MovedTo(IF c = size - 1 THEN 0 ELSE c + 1)
           /\ PushStep(TRUE) => history'.current_index = history'.entry_size - 1
           /\ (op.name = "push" /\ op.ret = TRUE /\ op'.name = "get_prev_entry"
                  /\ size >= 2) =>
                 op'.ret = Some(Live(history)[size - 1])]_vars

\* get_prev_entry has wrapped from the oldest entry to the newest one
C27_Witness ==
    /\ op.name = "get_prev_entry"
    /\ Live(history) = << <<"a">>, <<"b">> >>
    /\ history.current_index = 1
    /\ op.ret = Some(<<"b">>)

\* C28: after any sequence of push and clear, get_free_space returns (HTC
\* minus the bytes of the live entries, HME minus the number of live
\* entries): (HTC, HME) for an empty history, and 0 free bytes when the live
\* entries fill all HTC bytes
C28_FreeSpace ==
    op.name = "get_free_space" =>
        op.ret = <<HTC - TotalLen(Live(history)), HME - Len(Live(history))>>

\* C29: push refuses an empty or whitespace-only string: it returns false and
\* the number of entries stays as it was
C29_BlankPushRefused ==
    [][(op'.name = "push" /\ Stripped(op'.arg) = <<>>) =>
          /\ op'.ret = FALSE
          /\ history'.entry_size = history.entry_size]_vars

\* the history indexes a '#' line asks for: "#N", N written as one decimal digit
AskedEntry(typed) ==
    {N \in 0..9 : Tail(typed) \in { <<Digits[N + 1]>>, <<"+", Digits[N + 1]>> }}

\* what a '#' line makes parse_input pass to exec: history entry N for "#N"
\* when that entry exists, nothing otherwise
HashExec(typed, live) ==
    IF \E N \in AskedEntry(typed) : N < Len(live)
    THEN LET N == CHOOSE N \in AskedEntry(typed) : N < Len(live) IN <<live[N + 1]>>
    ELSE <<>>

\* what Enter does with the line `typed`; with `strict`, exec never receives a
\* string equal to a typed '#' line
Finalized(strict) ==
    op'.name = "parse_input" =>
        LET typed == buffer
            live == Live(history)
        IN  /\ buffer' = <<>>
            /\ typed = <<>> =>
                  /\ execd' = <<>>
                  /\ history' = history
            /\ (typed # <<>> /\ typed[1] = "#") =>
                  /\ execd' = HashExec(typed, live)
                  /\ strict => typed \notin Range(execd')
                  /\ Live(history') \in {live, <<>>}
                  /\ op'.ret = (typed # <<"#", "q">>)
            /\ (typed # <<>> /\ typed[1] # "#") =>
                  /\ execd' = <<typed>>
                  /\ op'.ret = TRUE
                  /\ Len(Stripped(typed)) <= HTC =>
                        /\ Stripped(typed) \in Range(Live(history'))
                        /\ Stripped(typed) \notin Range(live) =>
                              Live(history')[Len(Live(history'))] = Stripped(typed)

\* C30 as stated: when Enter finalizes a line: an empty line executes nothing
\* and stores nothing; a line starting with '#' is a special command, is
\* never passed to exec as typed and is never pushed to the history ("#q"
\* makes parse_input return false, "#N" passes history entry N to exec when
\* it exists and nothing otherwise, every other '#' line returns true); every
\* other line is passed to exec exactly once and then pushed to the history;
\* the input buffer is empty when parse_input returns
C30_HashLineNeverExecuted == [][Finalized(TRUE)]_vars

\* C30: as above, except that for a '#' line exec receives history entry N
\* for "#N" and nothing else, and that entry can itself be the text of the
\* typed line: a line typed with white space before the '#' is an ordinary
\* line, and the history stores it trimmed
C30_EnterFinalizesLine == [][Finalized(FALSE)]_vars

\* "#0" has been entered after the line "q": parse_input passed history entry 0
\* to exec, returned true, pushed nothing and left the buffer empty
C30_Witness ==
    /\ op.name = "parse_input"
    /\ op.arg = <<"#", "0">>
    /\ op.ret = TRUE
    /\ execd = << <<"q">> >>
    /\ Live(history) = << <<"q">> >>
    /\ buffer = <<>>

\* an arrow key has moved the history position from c to `to` and the entry
\* recalled there has replaced the input buffer
Recalled(to) ==
    /\ history'.current_index = to
    /\ buffer' = Live(history)[to + 1]
    /\ Live(history') = Live(history)

\* C31: in the line editor ArrowUp moves to the previous history entry (one
\* position older than the current history position, from the oldest round
\* to the newest) and ArrowDown moves to the next history entry (one position
\* newer, from the newest round to the oldest), and the recalled entry
\* replaces the input buffer
C31_ArrowUpRecallsOlder ==
    [][LET size == history.entry_size
           c == history.current_index
       IN  /\ (op'.name = "read_key" /\ op'.key = "ArrowUp" /\ size > 0) =>
                 Recalled(IF c = 0 THEN size - 1 ELSE c - 1)
           /\ (op'.name = "read_key" /\ op'.key = "ArrowDown" /\ size > 0) =>
                 Recalled(IF c = size - 1 THEN 0 ELSE c + 1)]_vars

\* the candidates that start with x, in candidate order
Matching(candidates, x) ==
    LET at == {j \in 1..Len(candidates) : IsPrefix(x, candidates[j])}
        nth(m) == CHOOSE j \in at : Cardinality({b \in at : b < j}) = m - 1
    IN  [m \in 1..Cardinality(at) |-> candidates[nth(m)]]

\* p is the longest string that every one of `strings` starts with
IsLongestCommonPrefix(p, strings) ==
    /\ \A j \in 1..Len(strings) : IsPrefix(p, strings[j])
    /\ \/ Len(p) = Len(strings[1])
       \/ \E j \in 1..Len(strings) :
             ~IsPrefix(SubSeq(strings[1], 1, Len(p) + 1), strings[j])

\* C32: after Autocomplete::update_input(x) the filtered list holds exactly
\* the candidates that start with x, in candidate order, and tab_index is 0;
\* the current input is the single matching candidate followed by one space
\* when exactly one candidate matches, the longest common prefix of the
\* matching candidates (which itself starts with x) when several match, and
\* x unchanged when none matches
C32_UpdateInput ==
    op.name = "update_input" =>
        LET x == op.arg
            matching == Matching(autocomplete.candidates, x)
        IN  /\ autocomplete.filtered = matching
            /\ autocomplete.tab_index = 0
            /\ Len(matching) = 1 => autocomplete.input = matching[1] \o <<SP>>
            /\ Len(matching) > 1 =>
                  /\ IsLongestCommonPrefix(autocomplete.input, matching)
                  /\ IsPrefix(x, autocomplete.input)
            /\ Len(matching) = 0 => autocomplete.input = x

\* update_input("h") over the commands help, exit, list, test, hello: help and
\* hello match and the current input is their common prefix "hel"
C32_Witness ==
    /\ op.name = "update_input"
    /\ op.arg = <<"h">>
    /\ Len(autocomplete.candidates) = 5
    /\ Len(autocomplete.filtered) = 2
    /\ autocomplete.input = <<"h", "e", "l">>

=============================================================================
